---- MODULE Spec2Model ----
(***************************************************************************)
(* Content-item tree and docking engine of golden-layout (fork with five   *)
(* ground panels).  The layout tree, the Stack / GroundItem mutations, the *)
(* LayoutManager operations and the DragProxy session are modelled as a    *)
(* state machine.  Every operation of the source is an operator over a     *)
(* tree record t (one field per object field) so that a handler is the     *)
(* sequential composition of the calls it makes.                           *)
(*                                                                         *)
(* ContentItem, RowOrColumn, ComponentItem and DragSource are not part of  *)
(* the available sources; their operations are modelled from the           *)
(* specification (sections 3, 4.1, 4.3 and 5) and are marked so below.     *)
(*                                                                         *)
(* Spec is the layout under load, addItem, close, focus, resize and drag.  *)
(* SpecArea applies LayoutManager.getArea to lists of areas, SpecPosition  *)
(* follows the position of a drag proxy, SpecMaximise maximises and        *)
(* minimises the stacks of loaded layouts.  SpecResize loads layouts and   *)
(* resizes the container (SpecResizeLive: every timeout set and not        *)
(* cleared runs), SpecScope runs the size updates and additions that open  *)
(* scopes, SpecLifecycle calls a layout manager in every stage of its      *)
(* life, SpecAddItem adds items with the default location selectors.       *)
(* SpecLocation adds items at the locations of selector lists,             *)
(* SpecAddMaximised adds items while a stack is maximised, SpecTabs adds,  *)
(* focuses and removes the tabs of stacks, SpecSnapshot saves layouts and  *)
(* loads what was saved, SpecZones computes the rectangles of drop zones,  *)
(* SpecCollapse loads and resizes layouts that hold empty columns.         *)
(***************************************************************************)
EXTENDS Integers, Sequences, FiniteSets, TLC

\* ------------------------------------------------------------------ bounds
MaxNodes == 12        \* node identities available to one run (6 are grounds)
MaxTabs == 2          \* largest number of tabs in a loaded stack configuration
MaxColumns == 2       \* largest number of columns in a loaded row configuration

\* --------------------------------------------------------------- constants
Null == 0             \* null / undefined reference
Undef == -1           \* an omitted (undefined) index argument
MainPanel == 1
LeftPanel == 2
TopPanel == 3
RightPanel == 4
BottomPanel == 5
DummyGround == 6      \* parent given to a component made by a drag source
MinItemWidth == 200   \* layoutConfig.dimensions.minItemWidth
Widths == {300, 1000}   \* container widths a resize can produce
ResponsiveModes == {"none", "always", "onload"}

Nodes == 1..MaxNodes
GroundPanelItems == {MainPanel, LeftPanel, TopPanel, RightPanel, BottomPanel}
IsSubWindow == FALSE  \* the layout manager of the main window

\* ------------------------------------------------- size shares (rationals)
\* A size share is an exact fraction <<numerator, denominator>> in lowest
\* terms, so that "sums to 100" is decided without rounding.
RECURSIVE GCD(_, _)
GCD(a, b) == IF b = 0 THEN a ELSE GCD(b, a % b)

RNorm(n, d) == LET g == GCD(n, d) IN IF g = 0 THEN <<0, 1>> ELSE <<n \div g, d \div g>>
R(n) == <<n, 1>>
RAdd(x, y) == RNorm(x[1] * y[2] + y[1] * x[2], x[2] * y[2])
RSub(x, y) == RNorm(x[1] * y[2] - y[1] * x[2], x[2] * y[2])
RMul(x, y) == RNorm(x[1] * y[1], x[2] * y[2])
RDiv(x, y) == RNorm(x[1] * y[2], x[2] * y[1])

\* ------------------------------------------------------ sequence helpers
\* Array.splice(index, 0, item) with a 0-based index
InsertAt(s, index, item) == SubSeq(s, 1, index) \o <<item>> \o SubSeq(s, index + 1, Len(s))
\* Array.splice(index, 1) with a 0-based index
RemoveAt(s, index) == SubSeq(s, 1, index) \o SubSeq(s, index + 2, Len(s))
\* Array.indexOf, 0-based, -1 when absent
IndexOf(s, item) ==
    IF \E i \in 1..Len(s) : s[i] = item
    THEN (CHOOSE i \in 1..Len(s) : s[i] = item /\ \A j \in 1..(i - 1) : s[j] # item) - 1
    ELSE -1
Includes(s, item) == \E i \in 1..Len(s) : s[i] = item
Range(s) == {s[i] : i \in 1..Len(s)}


\* ------------------------------------------------------------------ state
VARIABLES
    type,                 \* ContentItem.type of every node ("free": not created)
    contentItems,         \* ContentItem.contentItems, the ordered child list
    parent,               \* ContentItem.parent
    width,                \* ContentItem.width  (share of the parent's width)
    height,               \* ContentItem.height (share of the parent's height)
    activeComponentItem,  \* Stack._activeComponentItem
    destroyed,            \* the node has been destroyed
    focused,              \* ContentItem.focused (components and stacks)
    focusedComponentItem, \* LayoutManager._focusedComponentItem
    isInitialised,        \* LayoutManager._isInitialised
    lmWidth,              \* LayoutManager._width
    responsiveMode,       \* layoutConfig.settings.responsiveMode
    firstLoad,            \* LayoutManager._firstLoad
    updatingColumnsResponsive, \* LayoutManager._updatingColumnsResponsive
    err,                  \* the last operation ended by throwing
    dragProxy,            \* the active DragProxy, or NoDrag
    dropZones,            \* the drop zones held by the layout manager
    session,              \* history of the drag session in progress
    lastDrop,             \* history: what the DragProxy.onDrop that just ran did
    itemAreas,            \* LayoutManager._itemAreas
    pointer,              \* the pointer position last handed to getArea
    matchingArea,         \* what getArea returned for it
    elementArea,          \* the areas of the header and the body of an element on screen
    dropZoneAreas,        \* the drop zones computed from them, with their rectangles
    constrainDragToContainer, \* layoutConfig.settings.constrainDragToContainer
    minMaxXY,             \* DragProxy._minX, _maxX, _minY, _maxY
    pointerEvent,         \* the position of the last pointer event of the drag
    respondedPosition,    \* the position last given to respondToDraggedPosition
    maximisedStack,       \* LayoutManager._maximisedStack
    maximisedClass,       \* the stacks whose element carries the class lm_maximised
    stackMaximised,       \* the components that entered "stack maximised"
    maximisePlaceholder,  \* the item whose element holds the maximise placeholder
    resizeTimeoutId,      \* LayoutManager._resizeTimeoutId
    timers,               \* the timeouts set and neither cleared nor run yet
    containerElementWidth,       \* the width of the container element
    burst,                \* history: resize signals since the last one that found no timeout set
    recomputes,           \* history: size recomputes since the last resize signal
    lastResize,           \* history: the last load or resize and whether it collapsed
    sizeInvalidationCount,            \* the depth of the size invalidation scope
    virtualSizedContainerAddingCount, \* the depth of the virtual sized-container scope
    deepestScope,         \* history: the deepest nesting of scopes in the last operation
    violation,            \* history: the rule the last call broke (its arguments, or the
                          \* stage of life of the layout manager)
    lastAdd,              \* history: the last addItem and the location it returned
    saved,                \* the layout configuration the application saved last
    events,               \* history: the events emitted by the last maximise or
                          \* minimise, each with the state its handlers saw
    lastCall              \* history: that call

itemVars == <<type, contentItems, parent, width, height, activeComponentItem,
              destroyed, focused, focusedComponentItem, isInitialised,
              lmWidth, responsiveMode, firstLoad, updatingColumnsResponsive>>
treeVars == <<itemVars, err>>
dragVars == <<dragProxy, dropZones, session, lastDrop>>
areaVars == <<itemAreas, pointer, matchingArea, elementArea, dropZoneAreas>>
positionVars == <<constrainDragToContainer, minMaxXY, pointerEvent, respondedPosition>>
maximiseVars == <<maximisedStack, maximisedClass, stackMaximised, maximisePlaceholder,
                  events, lastCall>>
resizeVars == <<resizeTimeoutId, timers, containerElementWidth, burst, recomputes, lastResize>>
scopeVars == <<sizeInvalidationCount, virtualSizedContainerAddingCount, deepestScope, violation,
               lastAdd, saved>>
vars == <<treeVars, dragVars, areaVars, positionVars, maximiseVars, resizeVars, scopeVars>>

\* The tree as one record: the value the operations below transform.
Tree == [type |-> type, contentItems |-> contentItems, parent |-> parent,
         width |-> width, height |-> height,
         activeComponentItem |-> activeComponentItem, destroyed |-> destroyed,
         focused |-> focused, focusedComponentItem |-> focusedComponentItem,
         isInitialised |-> isInitialised, lmWidth |-> lmWidth,
         responsiveMode |-> responsiveMode, firstLoad |-> firstLoad,
         updatingColumnsResponsive |-> updatingColumnsResponsive, err |-> FALSE]

SetTree(t) ==
    /\ type' = t.type
    /\ contentItems' = t.contentItems
    /\ parent' = t.parent
    /\ width' = t.width
    /\ height' = t.height
    /\ activeComponentItem' = t.activeComponentItem
    /\ destroyed' = t.destroyed
    /\ focused' = t.focused
    /\ focusedComponentItem' = t.focusedComponentItem
    /\ isInitialised' = t.isInitialised
    /\ lmWidth' = t.lmWidth
    /\ responsiveMode' = t.responsiveMode
    /\ firstLoad' = t.firstLoad
    /\ updatingColumnsResponsive' = t.updatingColumnsResponsive
    /\ err' = t.err

Throw(t) == [t EXCEPT !.err = TRUE]

\* ------------------------------------------------------- tree queries
IsGround(t, n) == t.type[n] = "ground"
IsStack(t, n) == t.type[n] = "stack"
IsRow(t, n) == t.type[n] = "row"
IsColumn(t, n) == t.type[n] = "column"
IsComponent(t, n) == t.type[n] = "component"
IsRowOrColumn(t, n) == t.type[n] \in {"row", "column"}

\* RowOrColumn.dimension: the axis a row / column distributes
Share(t, rc, n) == IF IsRow(t, rc) THEN t.width[n] ELSE t.height[n]
SetShare(t, rc, n, v) ==
    IF IsRow(t, rc) THEN [t EXCEPT !.width[n] = v] ELSE [t EXCEPT !.height[n] = v]

RECURSIVE SumShares(_, _, _)
SumShares(t, rc, s) ==
    IF s = <<>> THEN R(0) ELSE RAdd(Share(t, rc, Head(s)), SumShares(t, rc, Tail(s)))

\* nodes reachable from node n through child lists (n included)
RECURSIVE Descendants(_, _)
Descendants(t, n) ==
    {n} \cup UNION {Descendants(t, c) : c \in Range(t.contentItems[n])}

InTreeOf(t) == UNION {Descendants(t, g) : g \in GroundPanelItems}


\* ------------------------------------------------------------- focus
\* ComponentItem.parentItem
ParentItem(t, c) == t.parent[c]

\* ContentItem.setFocusedValue / Stack.setFocusedValue
SetFocusedValue(t, n, value) ==
    IF n = Null THEN t ELSE [t EXCEPT !.focused[n] = value]

\* LayoutManager.setFocusedComponentItem; item = Null clears the focus
LayoutManager_setFocusedComponentItem(t, item) ==
    IF item = t.focusedComponentItem THEN t
    ELSE
        LET newParent0 == IF item = Null THEN Null ELSE ParentItem(t, item)
            old == t.focusedComponentItem
            oldParent == IF old = Null THEN Null ELSE ParentItem(t, old)
            \* the previously focused item is blurred
            t1 == IF old = Null THEN t
                  ELSE LET b == [t EXCEPT !.focusedComponentItem = Null,
                                          !.focused[old] = FALSE]
                       IN IF newParent0 = oldParent THEN b
                          ELSE SetFocusedValue(b, oldParent, FALSE)
            newParent == IF old # Null /\ newParent0 = oldParent THEN Null ELSE newParent0
        IN IF item = Null THEN t1
           ELSE SetFocusedValue([t1 EXCEPT !.focusedComponentItem = item,
                                           !.focused[item] = TRUE],
                                newParent, TRUE)

\* ComponentItem.blur
ComponentItem_blur(t, c) ==
    IF t.focused[c] THEN LayoutManager_setFocusedComponentItem(t, Null) ELSE t

\* Stack.setActiveComponentItem
Stack_setActiveComponentItem(t, s, c, focus) ==
    IF t.err THEN t
    ELSE IF t.activeComponentItem[s] # c /\ ~Includes(t.contentItems[s], c)
    THEN Throw(t)    \* 'componentItem is not a child of this stack'
    ELSE LET t1 == [t EXCEPT !.activeComponentItem[s] = c]
         IN IF t1.focused[s] \/ focus
            THEN LayoutManager_setFocusedComponentItem(t1, c)
            ELSE t1

\* GroundItem.setActiveComponentItem: nothing to do for a root component
GroundItem_setActiveComponentItem(t, g, c, focus) == t

\* ComponentItem.focus
ComponentItem_focus(t, c) ==
    IF t.err \/ ParentItem(t, c) = Null THEN t
    ELSE IF IsStack(t, ParentItem(t, c))
         THEN Stack_setActiveComponentItem(t, ParentItem(t, c), c, TRUE)
         ELSE GroundItem_setActiveComponentItem(t, ParentItem(t, c), c, TRUE)

\* ---------------------------------------------------------- destruction
RECURSIVE DestroyAll(_, _)
RECURSIVE ContentItem_destroy(_, _)

\* Stack.destroy: the focused active component is blurred first
Stack_destroy(t, s) ==
    ContentItem_destroy(
        IF t.activeComponentItem[s] # Null /\ t.focused[t.activeComponentItem[s]]
        THEN ComponentItem_blur(t, t.activeComponentItem[s])
        ELSE t,
        s)

Destroy(t, n) == IF IsStack(t, n) THEN Stack_destroy(t, n) ELSE ContentItem_destroy(t, n)

DestroyAll(t, s) == IF s = <<>> THEN t ELSE DestroyAll(Destroy(t, Head(s)), Tail(s))

\* ContentItem.destroy: children first, then the node itself
ContentItem_destroy(t, n) ==
    LET mark(u) == [u EXCEPT !.destroyed[n] = TRUE]
    IN mark(DestroyAll(t, t.contentItems[n]))


\* ----------------------------------------- ContentItem (base operations)
\* ContentItem.addChild: insert at index (default: the end), set the parent
ContentItem_addChild(t, p, c, index) ==
    [t EXCEPT !.contentItems[p] =
                  InsertAt(@, IF index = Undef THEN Len(@) ELSE index, c),
              !.parent[c] = p]

\* ContentItem.replaceChild: newChild takes oldChild's position and shares
ContentItem_replaceChild(t, p, oldChild, newChild) ==
    IF IndexOf(t.contentItems[p], oldChild) = -1 THEN Throw(t)
    ELSE [t EXCEPT !.contentItems[p] = [@ EXCEPT ![IndexOf(@, oldChild) + 1] = newChild],
                   !.parent[newChild] = p,
                   !.parent[oldChild] = Null,
                   !.width[newChild] = t.width[oldChild],
                   !.height[newChild] = t.height[oldChild]]

RECURSIVE RemoveChild(_, _, _, _)

\* ContentItem.removeChild: destroy unless kept, unlink, and remove a node
\* that became empty from its own parent (a ground is never removed)
ContentItem_removeChild(t, p, c, keepChild) ==
    LET unlink(u) == [u EXCEPT !.contentItems[p] = RemoveAt(@, IndexOf(@, c)),
                               !.parent[c] = Null]
        removeIfEmpty(u) ==
            IF u.contentItems[p] = <<>> /\ ~IsGround(u, p) /\ u.parent[p] # Null
            THEN RemoveChild(u, u.parent[p], p, FALSE)
            ELSE u
    IN IF t.err THEN t
       ELSE IF ~Includes(t.contentItems[p], c) THEN Throw(t)
       ELSE removeIfEmpty(unlink(IF keepChild THEN t ELSE Destroy(t, c)))

\* ContentItem.remove
ContentItem_remove(t, n) ==
    IF t.parent[n] = Null THEN Throw(t) ELSE RemoveChild(t, t.parent[n], n, FALSE)

\* ------------------------------------------------------------ RowOrColumn
\* every share of the children of rc multiplied by factor f
RECURSIVE ScaleShares(_, _, _, _)
ScaleShares(t, rc, s, f) ==
    IF s = <<>> THEN t
    ELSE ScaleShares(SetShare(t, rc, Head(s), RMul(Share(t, rc, Head(s)), f)), rc, Tail(s), f)

\* RowOrColumn.addChild: unless the resize is suspended the new child takes
\* an equal part and the other children shrink proportionally
RowOrColumn_addChild(t, rc, c, index, suspendResize) ==
    LET newItemSize(u) == RDiv(R(100), R(Len(u.contentItems[rc])))
        resize(u) ==
            SetShare(ScaleShares(u, rc, t.contentItems[rc],
                                 RDiv(RSub(R(100), newItemSize(u)), R(100))),
                     rc, c, newItemSize(u))
    IN IF t.err THEN t
       ELSE IF suspendResize THEN ContentItem_addChild(t, rc, c, index)
       ELSE resize(ContentItem_addChild(t, rc, c, index))

\* RowOrColumn.removeChild: after the removal a row / column left with one
\* child is replaced by that child; otherwise the remaining shares are
\* rescaled proportionally to fill the axis again
RowOrColumn_removeChild(t, rc, c, keepChild) ==
    LET collapse(u, only) ==
            IF u.parent[rc] = Null THEN Throw(u)
            ELSE Destroy(ContentItem_replaceChild(
                             [u EXCEPT !.contentItems[rc] = <<>>, !.parent[only] = Null],
                             u.parent[rc], rc, only),
                         rc)
        settle(u) ==
            IF u.err \/ u.contentItems[rc] = <<>> THEN u
            ELSE IF Len(u.contentItems[rc]) = 1 THEN collapse(u, u.contentItems[rc][1])
            ELSE ScaleShares(u, rc, u.contentItems[rc],
                             RDiv(R(100), SumShares(u, rc, u.contentItems[rc])))
    IN IF t.err THEN t ELSE settle(ContentItem_removeChild(t, rc, c, keepChild))


\* -------------------------------------------------------------- Stack
\* Stack.addChild that leaves the parent of the new child as it was
Stack_addChild_ParentKept(t, s, c, index, focus) ==
    IF t.err THEN t
    ELSE IF index # Undef /\ index > Len(t.contentItems[s]) THEN Throw(t)
    ELSE IF ~IsComponent(t, c) THEN Throw(t)
    ELSE Stack_setActiveComponentItem(
             [t EXCEPT !.contentItems[s] =
                           InsertAt(@, IF index = Undef THEN Len(@) ELSE index, c)],
             s, c, focus)

\* Stack.addChild without the test of the kind of the child
Stack_addChild_AnyKind(t, s, c, index, focus) ==
    IF t.err THEN t
    ELSE IF index # Undef /\ index > Len(t.contentItems[s]) THEN Throw(t)
    ELSE Stack_setActiveComponentItem(ContentItem_addChild(t, s, c, index), s, c, focus)

\* Stack.addChild
Stack_addChild(t, s, c, index, focus) ==
    IF t.err THEN t
    ELSE IF index # Undef /\ index > Len(t.contentItems[s]) THEN Throw(t)  \* SAC99728
    ELSE IF ~IsComponent(t, c) THEN Throw(t)                               \* SACC88532
    ELSE Stack_setActiveComponentItem(ContentItem_addChild(t, s, c, index), s, c, focus)

\* removeChild that makes the child before the removed one the active one,
\* also when the first child is removed
Stack_removeChild_AlwaysPreceding(t, s, c, keepChild) ==
    LET index == IndexOf(t.contentItems[s], c)
        stackWillBeDeleted == Len(t.contentItems[s]) = 1
        newActiveComponentIdx == IF index = 0 THEN 0 ELSE index - 1
        activate(b) ==
            IF stackWillBeDeleted THEN b
            ELSE IF newActiveComponentIdx + 1 \in 1..Len(b.contentItems[s])
            THEN Stack_setActiveComponentItem(
                     b, s, b.contentItems[s][newActiveComponentIdx + 1], FALSE)
            ELSE Throw(b)
        leave(u) ==
            IF u.activeComponentItem[s] = c
            THEN activate(IF u.focused[c] THEN ComponentItem_blur(u, c) ELSE u)
            ELSE u
    IN IF t.err THEN t ELSE ContentItem_removeChild(leave(t), s, c, keepChild)

\* Stack.removeChild
Stack_removeChild(t, s, c, keepChild) ==
    LET index == IndexOf(t.contentItems[s], c)
        stackWillBeDeleted == Len(t.contentItems[s]) = 1
        newActiveComponentIdx == IF index = 0 THEN 1 ELSE index - 1
        activate(b) ==
            IF stackWillBeDeleted THEN b
            ELSE IF newActiveComponentIdx + 1 \in 1..Len(b.contentItems[s])
            THEN Stack_setActiveComponentItem(
                     b, s, b.contentItems[s][newActiveComponentIdx + 1], FALSE)
            ELSE Throw(b)
        leave(u) ==
            IF u.activeComponentItem[s] = c
            THEN activate(IF u.focused[c] THEN ComponentItem_blur(u, c) ELSE u)
            ELSE u
    IN IF t.err THEN t ELSE ContentItem_removeChild(leave(t), s, c, keepChild)

\* removeChild as overridden by the kind of the parent
RemoveChild(t, p, c, keepChild) ==
    IF IsStack(t, p) THEN Stack_removeChild(t, p, c, keepChild)
    ELSE IF IsRowOrColumn(t, p) THEN RowOrColumn_removeChild(t, p, c, keepChild)
    ELSE ContentItem_removeChild(t, p, c, keepChild)

\* Stack.init: the configured tab becomes the active one
Stack_init(t, s, initialActiveItemIndex) ==
    IF t.err \/ t.contentItems[s] = <<>> THEN t
    ELSE IF initialActiveItemIndex < 0 \/ initialActiveItemIndex >= Len(t.contentItems[s])
    THEN Throw(t)
    ELSE IF \E i \in 1..Len(t.contentItems[s]) : ~IsComponent(t, t.contentItems[s][i])
    THEN Throw(t)
    ELSE Stack_setActiveComponentItem(t, s, t.contentItems[s][initialActiveItemIndex + 1], FALSE)

\* ------------------------------------------------------ configurations
\* A resolved item configuration: kind, children, shares, active tab.
Config(ty, content, w, h, activeItemIndex) ==
    [type |-> ty, content |-> content, width |-> w, height |-> h,
     activeItemIndex |-> activeItemIndex]
DefaultSize == R(50)
\* ResolvedItemConfig.createDefault / ResolvedStackItemConfig.createDefault
DefaultConfig(ty) == Config(ty, <<>>, DefaultSize, DefaultSize, 0)
ComponentConfig == DefaultConfig("component")
Sized(cfg, w, h) == [cfg EXCEPT !.width = w, !.height = h]

\* number of nodes LayoutManager.createContentItem(cfg, parent) creates
RECURSIVE ConfigNodes(_, _)
RECURSIVE ConfigSeqNodes(_, _)
ConfigNodes(cfg, parentIsStack) ==
    IF cfg.type = "component"
    THEN IF parentIsStack \/ IsSubWindow THEN 1 ELSE 2
    ELSE 1 + ConfigSeqNodes(cfg.content, cfg.type = "stack")
ConfigSeqNodes(cs, parentIsStack) ==
    IF cs = <<>> THEN 0
    ELSE ConfigNodes(Head(cs), parentIsStack) + ConfigSeqNodes(Tail(cs), parentIsStack)

RECURSIVE LayoutManager_createContentItem(_, _, _)
RECURSIVE CreateContentItems(_, _, _)

\* the identity of the next object created
FreeNodes(t) == {n \in Nodes : t.type[n] = "free"}
NewId(t) == CHOOSE n \in FreeNodes(t) : \A m \in FreeNodes(t) : n <= m

\* LayoutManager.createContentItemFromConfig and the ContentItem constructor:
\* a new node with the given parent whose children are created from content.
\* The result is the tree and the item created.
LayoutManager_createContentItemFromConfig(t, config, parentNode) ==
    LET construct(id) ==
            [t |-> CreateContentItems([t EXCEPT !.type[id] = config.type,
                                                !.parent[id] = parentNode,
                                                !.width[id] = config.width,
                                                !.height[id] = config.height],
                                      config.content, id),
             item |-> id]
    IN construct(NewId(t))

\* ContentItem.createContentItems: the children are created in order
CreateContentItems(t, content, p) ==
    LET append(r) ==
            CreateContentItems([r.t EXCEPT !.contentItems[p] = Append(@, r.item)],
                               Tail(content), p)
    IN IF content = <<>> THEN t
       ELSE append(LayoutManager_createContentItem(t, Head(content), p))

\* LayoutManager.createContentItem that never interposes a stack
LayoutManager_createContentItem_NoStack(t, config, parentNode) ==
    LayoutManager_createContentItemFromConfig(t, config, parentNode)

\* LayoutManager.createContentItem: a component that is not created inside a
\* stack gets a stack of its own
LayoutManager_createContentItem(t, config, parentNode) ==
    LayoutManager_createContentItemFromConfig(
        t,
        IF /\ config.type = "component"
           /\ ~IsStack(t, parentNode)
           /\ parentNode # Null
           /\ ~(IsSubWindow /\ IsGround(t, parentNode))
        THEN Config("stack", <<config>>, config.width, config.height, 0)
        ELSE config,
        parentNode)

\* ContentItem.init / Stack.init over a new subtree: every stack in it
\* activates its configured tab
RECURSIVE InitItem(_, _, _)
RECURSIVE InitItems(_, _, _)
InitItem(t, n, config) ==
    LET children(u, cfg) == InitItems(u, u.contentItems[n], cfg.content)
        init(cfg) ==
            children(IF IsStack(t, n) THEN Stack_init(t, n, cfg.activeItemIndex) ELSE t, cfg)
    IN init(IF IsStack(t, n) /\ config.type = "component"
            THEN Config("stack", <<config>>, config.width, config.height, 0)
            ELSE config)
InitItems(t, s, cs) ==
    IF s = <<>> \/ cs = <<>> THEN t
    ELSE InitItems(InitItem(t, Head(s), Head(cs)), Tail(s), Tail(cs))

\* LayoutManager.createAndInitContentItem
LayoutManager_createAndInitContentItem(t, config, parentNode) ==
    LET init(r) == [t |-> InitItem(r.t, r.item, config), item |-> r.item]
    IN init(LayoutManager_createContentItem(t, config, parentNode))


\* ----------------------------------------------------------- GroundItem
\* GroundItem.addChild
GroundItem_addChild(t, g, c, index) ==
    IF t.err THEN t
    ELSE IF Len(t.contentItems[g]) > 0 THEN Throw(t)  \* 'Ground node can only have a single child'
    ELSE ContentItem_addChild(t, g, c, index)

\* addChild as overridden by the kind of the parent, with default arguments
AddChild(t, p, c, index) ==
    IF IsStack(t, p) THEN Stack_addChild(t, p, c, index, FALSE)
    ELSE IF IsRowOrColumn(t, p) THEN RowOrColumn_addChild(t, p, c, index, FALSE)
    ELSE GroundItem_addChild(t, p, c, index)

\* GroundItem.clearRoot
GroundItem_clearRoot(t, g) ==
    IF t.err \/ Len(t.contentItems[g]) = 0 THEN t
    ELSE IF Len(t.contentItems[g]) = 1 THEN ContentItem_remove(t, t.contentItems[g][1])
    ELSE Throw(t)                                      \* GILR07721

NoConfig == Config("none", <<>>, R(0), R(0), 0)

\* GroundItem.loadRoot
GroundItem_loadRoot(t, g, rootItemConfig) ==
    LET add(r) == GroundItem_addChild(r.t, g, r.item, 0)
        load(u) ==
            IF u.err \/ rootItemConfig = NoConfig THEN u
            ELSE add(LayoutManager_createAndInitContentItem(u, rootItemConfig, g))
    IN load(GroundItem_clearRoot(t, g))

\* GroundItem.addItem; the result is the tree and the index returned
GroundItem_addItem(t, g, itemConfig, index) ==
    LET add(r, p) ==
            [t |-> AddChild(r.t, p, r.item, index),
             index |-> IF p = g THEN -1
                       ELSE IF index = Undef THEN Len(t.contentItems[p]) ELSE index]
        addTo(p) ==
            IF IsComponent(t, p)
            THEN [t |-> Throw(t), index |-> Undef]  \* 'Cannot add item as child to ComponentItem'
            ELSE add(LayoutManager_createAndInitContentItem(t, itemConfig, p), p)
    IN addTo(IF Len(t.contentItems[g]) > 0 THEN t.contentItems[g][1] ELSE g)

\* GroundItem.loadComponentAsRoot: the component is created directly under
\* the ground, without a stack
GroundItem_loadComponentAsRoot(t, g, itemConfig) ==
    LET add(r) == GroundItem_addChild(r.t, g, r.item, 0)
        load(u) ==
            IF u.err THEN u
            ELSE add(LayoutManager_createContentItemFromConfig(u, itemConfig, g))
    IN load(GroundItem_clearRoot(t, g))

\* GroundItem.wrapItemInStack; the result is the tree and the new stack
GroundItem_wrapItemInStack(t, g, item) ==
    LET add(r) == [t |-> Stack_addChild(r.t, r.item, item, Undef, FALSE), item |-> r.item]
    IN add(LayoutManager_createAndInitContentItem(t, DefaultConfig("stack"), g))

\* GroundItem.wrapChildInContainerAndAddItem
GroundItem_wrapChildInContainerAndAddItem(t, g, containerType, itemToAdd, addAtPosition) ==
    LET halve(u, wrapperContainer, currentChild, newStack) ==
            IF u.err THEN u
            ELSE SetShare(SetShare(u, wrapperContainer, currentChild, R(50)),
                          wrapperContainer, newStack, R(50))
        fill(r, currentChild, newStack) ==
            halve(RowOrColumn_addChild(
                      RowOrColumn_addChild(
                          ContentItem_replaceChild(r.t, g, currentChild, r.item),
                          r.item, currentChild, Undef, FALSE),
                      r.item, newStack, addAtPosition, TRUE),
                  r.item, currentChild, newStack)
        wrap(w, currentChild) ==
            fill(LayoutManager_createContentItem(w.t, DefaultConfig(containerType), g),
                 currentChild, w.item)
    IN IF t.err \/ t.contentItems[g] = <<>> THEN Throw(t)
       ELSE wrap(GroundItem_wrapItemInStack(t, g, itemToAdd), t.contentItems[g][1])

\* Stack.splitStackAndAddItem that sizes the two halves 50 and 40
Stack_splitStackAndAddItem_Uneven(t, s, splitType, itemToAdd, addAtPosition) ==
    LET halve(u, rowOrColumn, stackWithAddedItem) ==
            IF u.err THEN u
            ELSE SetShare(SetShare(u, rowOrColumn, s, R(50)),
                          rowOrColumn, stackWithAddedItem, R(40))
        fill(r, stackWithAddedItem) ==
            halve(RowOrColumn_addChild(
                      RowOrColumn_addChild(
                          ContentItem_replaceChild(r.t, t.parent[s], s, r.item),
                          r.item, s, Undef, TRUE),
                      r.item, stackWithAddedItem, addAtPosition, TRUE),
                  r.item, stackWithAddedItem)
        split(r) ==
            fill(LayoutManager_createContentItem(
                     Stack_addChild(r.t, r.item, itemToAdd, Undef, FALSE),
                     DefaultConfig(splitType), s),
                 r.item)
    IN IF t.err THEN t
       ELSE IF t.parent[s] = Null THEN Throw(t)
       ELSE split(LayoutManager_createAndInitContentItem(t, DefaultConfig("stack"), s))

\* Stack.splitStackAndAddItem
Stack_splitStackAndAddItem(t, s, splitType, itemToAdd, addAtPosition) ==
    LET halve(u, rowOrColumn, stackWithAddedItem) ==
            IF u.err THEN u
            ELSE SetShare(SetShare(u, rowOrColumn, s, R(50)),
                          rowOrColumn, stackWithAddedItem, R(50))
        fill(r, stackWithAddedItem) ==
            halve(RowOrColumn_addChild(
                      RowOrColumn_addChild(
                          ContentItem_replaceChild(r.t, t.parent[s], s, r.item),
                          r.item, s, Undef, TRUE),
                      r.item, stackWithAddedItem, addAtPosition, TRUE),
                  r.item, stackWithAddedItem)
        split(r) ==
            fill(LayoutManager_createContentItem(
                     Stack_addChild(r.t, r.item, itemToAdd, Undef, FALSE),
                     DefaultConfig(splitType), s),
                 r.item)
    IN IF t.err THEN t
       ELSE IF t.parent[s] = Null THEN Throw(t)   \* 'Stack should always have a parent'
       ELSE split(LayoutManager_createAndInitContentItem(t, DefaultConfig("stack"), s))


\* ----------------------------------------------------------- drop zones
\* A drop zone is its owning content item and the place on it; the commit
\* action (onDrop) is determined by the two.
DropZone(n, zone) == [contentItem |-> n, zone |-> zone]
NoZone == DropZone(Null, "none")

\* getAllDropZones that offers the edges along the orientation of the root
GroundItem_getAllDropZones_AlongRoot(t, g) ==
    IF Len(t.contentItems[g]) = 0
    THEN {DropZone(g, "whole ground item")}
    ELSE IF ~IsStack(t, t.contentItems[g][1])
    THEN IF IsRow(t, t.contentItems[g][1])
         THEN {DropZone(g, "ground item left edge"), DropZone(g, "ground item right edge")}
         ELSE IF IsColumn(t, t.contentItems[g][1])
         THEN {DropZone(g, "ground item top edge"), DropZone(g, "ground item bottom edge")}
         ELSE {}
    ELSE {}

\* GroundItem.getAllDropZones
GroundItem_getAllDropZones(t, g) ==
    IF Len(t.contentItems[g]) = 0
    THEN {DropZone(g, "whole ground item")}
    ELSE IF ~IsStack(t, t.contentItems[g][1])
    THEN \* GroundItem.getEdgeDropZones
         IF IsRow(t, t.contentItems[g][1])
         THEN {DropZone(g, "ground item top edge"), DropZone(g, "ground item bottom edge")}
         ELSE IF IsColumn(t, t.contentItems[g][1])
         THEN {DropZone(g, "ground item left edge"), DropZone(g, "ground item right edge")}
         ELSE {}
    ELSE {}

\* Stack.getDropZones / Stack.getHeaderAndBodyDropZones
Stack_getDropZones(t, s) ==
    {DropZone(s, "stack header")} \cup
    (IF Len(t.contentItems[s]) = 0
     THEN {DropZone(s, "empty stack")}
     ELSE {DropZone(s, "stack left side"), DropZone(s, "stack top side"),
           DropZone(s, "stack right side"), DropZone(s, "stack bottom side")})

\* LayoutManager.retrieveDropZones: the zones of the five grounds and of
\* every stack below them
LayoutManager_retrieveDropZones(t) ==
    UNION {GroundItem_getAllDropZones(t, g) : g \in GroundPanelItems}
    \cup UNION {Stack_getDropZones(t, s) : s \in {n \in InTreeOf(t) : IsStack(t, n)}}

\* LayoutManager.getSelectedDropZoneForPointerPosition.  A pointer position
\* is represented by the zone whose hover rectangle wins at that position
\* (NoZone: a position inside no hover rectangle).
LayoutManager_getSelectedDropZoneForPointerPosition(zones, position) ==
    IF position \in zones THEN position ELSE NoZone

\* the onDrop callback of the "whole ground item" zone that adds the dropped
\* component without a stack around it
GroundItem_dropOnEntireArea_Unwrapped(t, g, droppedItem) ==
    GroundItem_addChild(t, g, droppedItem, Undef)

\* the onDrop callback of the "whole ground item" zone
GroundItem_dropOnEntireArea(t, g, droppedItem) ==
    LET add(w) == GroundItem_addChild(w.t, g, w.item, Undef)
    IN add(GroundItem_wrapItemInStack(t, g, droppedItem))

\* the onDrop callbacks of the edge zones of a ground with the orientation
\* of the wrapper turned
GroundItem_dropOnEdge_Turned(t, g, zone, droppedItem) ==
    GroundItem_wrapChildInContainerAndAddItem(
        t, g,
        IF zone \in {"ground item left edge", "ground item right edge"} THEN "column" ELSE "row",
        droppedItem,
        IF zone \in {"ground item left edge", "ground item top edge"} THEN 0 ELSE Undef)

\* the onDrop callbacks of the edge zones of a ground
GroundItem_dropOnEdge(t, g, zone, droppedItem) ==
    GroundItem_wrapChildInContainerAndAddItem(
        t, g,
        IF zone \in {"ground item left edge", "ground item right edge"} THEN "row" ELSE "column",
        droppedItem,
        IF zone \in {"ground item left edge", "ground item top edge"} THEN 0 ELSE Undef)

\* the onDrop callbacks of the side zones of a stack with the new stack put
\* on the far side
Stack_dropOnSide_FarSide(t, s, zone, droppedItem) ==
    Stack_splitStackAndAddItem(
        t, s,
        IF zone \in {"stack left side", "stack right side"} THEN "row" ELSE "column",
        droppedItem,
        IF zone \in {"stack left side", "stack top side"} THEN Undef ELSE 0)

\* the onDrop callbacks of the side zones of a stack
Stack_dropOnSide(t, s, zone, droppedItem) ==
    Stack_splitStackAndAddItem(
        t, s,
        IF zone \in {"stack left side", "stack right side"} THEN "row" ELSE "column",
        droppedItem,
        IF zone \in {"stack left side", "stack top side"} THEN 0 ELSE Undef)

\* DropZone.onDrop of each zone
DropZone_onDrop(t, z, droppedItem) ==
    CASE z.zone = "whole ground item" ->
             GroundItem_dropOnEntireArea(t, z.contentItem, droppedItem)
      [] z.zone \in {"ground item left edge", "ground item right edge",
                     "ground item top edge", "ground item bottom edge"} ->
             GroundItem_dropOnEdge(t, z.contentItem, z.zone, droppedItem)
      [] z.zone = "stack header" -> Stack_addChild(t, z.contentItem, droppedItem, Undef, FALSE)
      [] z.zone = "empty stack" -> Stack_addChild(t, z.contentItem, droppedItem, 0, TRUE)
      [] z.zone \in {"stack left side", "stack top side",
                     "stack right side", "stack bottom side"} ->
             Stack_dropOnSide(t, z.contentItem, z.zone, droppedItem)
      [] OTHER -> Throw(t)

\* ------------------------------------------------------------ DragProxy
Proxy(c, originalParent, selected, wasFocused) ==
    [draggedComponent |-> c, originalParent |-> originalParent,
     selectedDropZone |-> selected, componentItemFocused |-> wasFocused]
NoDrag == Proxy(Null, Null, NoZone, FALSE)

\* DragProxy.highlightDropZoneForPosition that forgets the selection when
\* the position matches no zone
DragProxy_highlightDropZoneForPosition_Forgetful(proxy, zones, position) ==
    [proxy EXCEPT !.selectedDropZone =
                      LayoutManager_getSelectedDropZoneForPointerPosition(zones, position)]

\* DragProxy.highlightDropZoneForPosition (through respondToDraggedPosition):
\* a position that matches no zone keeps the zone selected before
DragProxy_highlightDropZoneForPosition(proxy, zones, position) ==
    IF LayoutManager_getSelectedDropZoneForPointerPosition(zones, position) # NoZone
    THEN [proxy EXCEPT !.selectedDropZone =
                           LayoutManager_getSelectedDropZoneForPointerPosition(zones, position)]
    ELSE proxy

\* DragProxy constructor up to the first position test: the component is
\* blurred, detached (kept alive), and only then are the zones retrieved.
\* The result is the tree, the proxy, the zones and the number of times the
\* zones were retrieved.
DragProxy_constructor(t, draggedComponent, originalParent) ==
    LET retrieve(u) ==
            [t |-> u,
             proxy |-> Proxy(draggedComponent, originalParent, NoZone,
                             t.focused[draggedComponent]),
             zones |-> LayoutManager_retrieveDropZones(u), retrievals |-> 1]
        detach(u) == RemoveChild(u, u.parent[draggedComponent], draggedComponent, TRUE)
    IN IF t.parent[draggedComponent] = Null
       THEN [t |-> Throw(t), proxy |-> NoDrag, zones |-> {}, retrievals |-> 0]  \* DPC10097
       ELSE retrieve(detach(IF t.focused[draggedComponent]
                            THEN ComponentItem_blur(t, draggedComponent)
                            ELSE t))

\* DragProxy.onDrop that also re-inserts a committed component into its
\* original parent
DragProxy_onDrop_CommitAndRevert(t, proxy) ==
    IF proxy.selectedDropZone # NoZone
    THEN IF proxy.originalParent # Null
         THEN [t |-> AddChild(DropZone_onDrop(t, proxy.selectedDropZone, proxy.draggedComponent),
                              proxy.originalParent, proxy.draggedComponent, Undef),
               outcomes |-> <<"committed", "reverted">>]
         ELSE [t |-> DropZone_onDrop(t, proxy.selectedDropZone, proxy.draggedComponent),
               outcomes |-> <<"committed">>]
    ELSE IF proxy.originalParent # Null
    THEN [t |-> AddChild(t, proxy.originalParent, proxy.draggedComponent, Undef),
          outcomes |-> <<"reverted">>]
    ELSE [t |-> Destroy(t, proxy.draggedComponent), outcomes |-> <<"discarded">>]

\* DragProxy.onDrop that does not give the focus back
DragProxy_onDrop_FocusLost(t, proxy) ==
    IF proxy.selectedDropZone # NoZone
    THEN [t |-> DropZone_onDrop(t, proxy.selectedDropZone, proxy.draggedComponent),
          outcomes |-> <<"committed">>]
    ELSE IF proxy.originalParent # Null
    THEN [t |-> AddChild(t, proxy.originalParent, proxy.draggedComponent, Undef),
          outcomes |-> <<"reverted">>]
    ELSE [t |-> Destroy(t, proxy.draggedComponent), outcomes |-> <<"discarded">>]

\* DragProxy.onDrop.  The result is the tree and the list of the outcomes
\* taken ("committed", "reverted", "discarded").
DragProxy_onDrop(t, proxy) ==
    LET focus(u) ==
            IF ~u.err /\ proxy.componentItemFocused
            THEN ComponentItem_focus(u, proxy.draggedComponent)
            ELSE u
    IN IF proxy.selectedDropZone # NoZone
       THEN [t |-> focus(DropZone_onDrop(t, proxy.selectedDropZone, proxy.draggedComponent)),
             outcomes |-> <<"committed">>]
       ELSE IF proxy.originalParent # Null
       THEN [t |-> focus(AddChild(t, proxy.originalParent, proxy.draggedComponent, Undef)),
             outcomes |-> <<"reverted">>]
       ELSE [t |-> Destroy(t, proxy.draggedComponent),
             outcomes |-> <<"discarded">>]


\* ------------------------------------------------- responsive collapse
\* LayoutManager.findAllStacksRecursive / getAllStacks: stacks in pre-order
RECURSIVE FindAllStacks(_, _)
RECURSIVE FindAllStacksIn(_, _)
FindAllStacks(t, node) == FindAllStacksIn(t, t.contentItems[node])
FindAllStacksIn(t, s) ==
    IF s = <<>> THEN <<>>
    ELSE (IF IsStack(t, Head(s)) THEN <<Head(s)>>
          ELSE IF ~IsComponent(t, Head(s)) THEN FindAllStacks(t, Head(s))
          ELSE <<>>) \o FindAllStacksIn(t, Tail(s))

\* LayoutManager.addChildContentItemsToContainer.  Both loops run over the
\* live child list of node with an increasing index i.
RECURSIVE AddChildContentItemsLoop(_, _, _, _)
LayoutManager_addChildContentItemsToContainer(t, container, node) ==
    AddChildContentItemsLoop(t, container, node, 0)
AddChildContentItemsLoop(t, container, node, i) ==
    LET move(item) ==
            IF IsStack(t, node)
            THEN AddChild(Stack_removeChild(t, node, item, TRUE), container, item, Undef)
            ELSE LayoutManager_addChildContentItemsToContainer(t, container, item)
    IN IF t.err \/ i >= Len(t.contentItems[node]) THEN t
       ELSE AddChildContentItemsLoop(move(t.contentItems[node][i + 1]), container, node, i + 1)

\* LayoutManager.useResponsiveLayout
LayoutManager_useResponsiveLayout(t) ==
    t.responsiveMode = "always" \/ (t.responsiveMode = "onload" /\ t.firstLoad)

\* the loop of adjustColumnsResponsive: the right-most column, n times
RECURSIVE StackColumnsLoop(_, _, _, _)
StackColumnsLoop(t, rootContentItem, firstStackContainer, n) ==
    IF n = 0 \/ t.err THEN t
    ELSE IF t.contentItems[rootContentItem] = <<>> THEN Throw(t)
    ELSE StackColumnsLoop(
             LayoutManager_addChildContentItemsToContainer(
                 t, firstStackContainer,
                 t.contentItems[rootContentItem][Len(t.contentItems[rootContentItem])]),
             rootContentItem, firstStackContainer, n - 1)

\* LayoutManager.adjustColumnsResponsive
LayoutManager_adjustColumnsResponsive(t) ==
    LET finish(u) == IF u.err THEN u ELSE [u EXCEPT !.updatingColumnsResponsive = FALSE]
        finalColumnCount(u) ==
            IF u.lmWidth \div MinItemWidth > 1 THEN u.lmWidth \div MinItemWidth ELSE 1
        stack(u, rootContentItem, allStacks) ==
            IF allStacks = <<>> THEN Throw(u)                            \* LMACRS77413
            ELSE finish(StackColumnsLoop(
                            u, rootContentItem, allStacks[1],
                            Len(u.contentItems[rootContentItem]) - finalColumnCount(u)))
        columns(u, rootContentItem) ==
            IF \/ Len(u.contentItems[rootContentItem]) <= 1
               \/ Len(u.contentItems[rootContentItem]) * MinItemWidth <= u.lmWidth
            THEN u
            ELSE stack([u EXCEPT !.updatingColumnsResponsive = TRUE],
                       rootContentItem, FindAllStacks(u, MainPanel))
        adjust(u) ==
            IF /\ LayoutManager_useResponsiveLayout(u)
               /\ ~u.updatingColumnsResponsive
               /\ Len(u.contentItems[MainPanel]) > 0
               /\ IsRow(u, u.contentItems[MainPanel][1])
            THEN columns(u, u.contentItems[MainPanel][1])
            ELSE u
    IN IF t.err THEN t ELSE adjust([t EXCEPT !.firstLoad = FALSE])


\* --------------------------------------------------- location selectors
Location(p, index) == [parentItem |-> p, index |-> index]
NoLocation == Location(Null, Undef)
Selector(typeId, index) == [typeId |-> typeId, index |-> index]

\* LayoutManager.defaultLocationSelectors
DefaultLocationSelectors ==
    <<Selector("FocusedStack", Undef), Selector("FirstStack", Undef),
      Selector("FirstRowOrColumn", Undef), Selector("Root", Undef)>>
\* LayoutManager.afterFocusedItemIfPossibleLocationSelectors
AfterFocusedItemIfPossibleLocationSelectors ==
    <<Selector("FocusedItem", 1), Selector("FirstStack", Undef),
      Selector("FirstRowOrColumn", Undef), Selector("Root", Undef)>>

\* LayoutManager.findFirstContentItemTypeRecursive: the children of a node
\* are examined before the search descends
RECURSIVE FindFirstContentItemTypeRecursive(_, _, _)
RECURSIVE FindFirstInSubtrees(_, _, _)
FindFirstContentItemTypeRecursive(t, ty, node) ==
    LET cs == t.contentItems[node]
    IN IF \E i \in 1..Len(cs) : t.type[cs[i]] = ty
       THEN cs[CHOOSE i \in 1..Len(cs) :
                   t.type[cs[i]] = ty /\ \A j \in 1..(i - 1) : t.type[cs[j]] # ty]
       ELSE FindFirstInSubtrees(t, ty, cs)
FindFirstInSubtrees(t, ty, cs) ==
    IF cs = <<>> THEN Null
    ELSE LET found == FindFirstContentItemTypeRecursive(t, ty, Head(cs))
         IN IF found # Null THEN found ELSE FindFirstInSubtrees(t, ty, Tail(cs))

\* LayoutManager.findFirstContentItemType
LayoutManager_findFirstContentItemType(t, ty) ==
    FindFirstContentItemTypeRecursive(t, ty, MainPanel)

\* LayoutManager.tryCreateLocationFromParentItem
LayoutManager_tryCreateLocationFromParentItem(t, parentItem, selectorIndex) ==
    IF selectorIndex = Undef THEN Location(parentItem, Len(t.contentItems[parentItem]))
    ELSE IF selectorIndex < 0 \/ selectorIndex > Len(t.contentItems[parentItem]) THEN NoLocation
    ELSE Location(parentItem, selectorIndex)

\* LayoutManager.findLocation
LayoutManager_findLocation(t, selector) ==
    LET selectorIndex == selector.index
        try(ty) == LET p == LayoutManager_findFirstContentItemType(t, ty)
                   IN IF p = Null THEN NoLocation
                      ELSE LayoutManager_tryCreateLocationFromParentItem(t, p, selectorIndex)
        f == t.focusedComponentItem
    IN CASE selector.typeId = "FocusedItem" ->
              IF f = Null \/ ParentItem(t, f) = Null THEN NoLocation
              ELSE LET cs == t.contentItems[ParentItem(t, f)]
                       index == IndexOf(cs, f) + selectorIndex
                   IN IF selectorIndex = Undef THEN Location(ParentItem(t, f), Len(cs))
                      ELSE IF index < 0 \/ index > Len(cs) THEN NoLocation
                      ELSE Location(ParentItem(t, f), index)
         [] selector.typeId = "FocusedStack" ->
              IF f = Null \/ ParentItem(t, f) = Null THEN NoLocation
              ELSE LayoutManager_tryCreateLocationFromParentItem(t, ParentItem(t, f), selectorIndex)
         [] selector.typeId = "FirstStack" -> try("stack")
         [] selector.typeId = "FirstRowOrColumn" ->
              IF LayoutManager_findFirstContentItemType(t, "row") # Null
              THEN try("row") ELSE try("column")
         [] selector.typeId = "FirstRow" -> try("row")
         [] selector.typeId = "FirstColumn" -> try("column")
         [] selector.typeId = "Empty" ->
              IF t.contentItems[MainPanel] # <<>> THEN NoLocation
              ELSE IF selectorIndex = Undef \/ selectorIndex = 0 THEN Location(MainPanel, 0)
              ELSE NoLocation
         [] selector.typeId = "Root" ->
              IF t.contentItems[MainPanel] = <<>>
              THEN IF selectorIndex = Undef \/ selectorIndex = 0 THEN Location(MainPanel, 0)
                   ELSE NoLocation
              ELSE LayoutManager_tryCreateLocationFromParentItem(
                       t, t.contentItems[MainPanel][1], selectorIndex)
         [] OTHER -> NoLocation

\* LayoutManager.findFirstLocation
RECURSIVE LayoutManager_findFirstLocation(_, _)
LayoutManager_findFirstLocation(t, selectors) ==
    IF selectors = <<>> THEN NoLocation
    ELSE LET orNext(location) ==
                 IF location # NoLocation THEN location
                 ELSE LayoutManager_findFirstLocation(t, Tail(selectors))
         IN orNext(LayoutManager_findLocation(t, Head(selectors)))

\* Stack.addItem / RowOrColumn.addItem: create the item below the parent and
\* add it.  The result is the tree and the index returned.
ParentAddItem(t, p, itemConfig, index) ==
    LET add(r) ==
            [t |-> AddChild(r.t, p, r.item, index),
             index |-> IF index = Undef THEN Len(t.contentItems[p]) ELSE index]
    IN add(LayoutManager_createAndInitContentItem(t, itemConfig, p))

\* addItemAtLocation without the test whether a stack was inserted: the
\* location returned is that of the item added to the parent
LayoutManager_addItemAtLocation_NoStackTest(t, itemConfig, locationSelectors) ==
    LET inserted(u, parentItem, addIdx) == Location(parentItem, addIdx)
        \* a ground adds below its root item when it has one
        added(r, p) ==
            IF r.t.err THEN [t |-> r.t, location |-> NoLocation]
            ELSE IF IsGround(t, p) /\ r.index >= 0
            THEN [t |-> r.t,
                  location |-> inserted(r.t, r.t.contentItems[MainPanel][1], r.index)]
            ELSE [t |-> r.t,
                  location |-> inserted(r.t, p, IF IsGround(t, p) THEN 0 ELSE r.index)]
        addAt(location) ==
            IF location = NoLocation THEN [t |-> t, location |-> NoLocation]
            ELSE IF IsStack(t, location.parentItem) /\ itemConfig.type # "component"
            THEN [t |-> Throw(t), location |-> NoLocation]   \* ItemConfigIsNotTypeComponent
            ELSE IF IsComponent(t, location.parentItem)
            THEN [t |-> Throw(t), location |-> NoLocation]   \* LMAIALC87444602
            ELSE IF IsGround(t, location.parentItem)
            THEN added(GroundItem_addItem(t, location.parentItem, itemConfig, location.index),
                       location.parentItem)
            ELSE added(ParentAddItem(t, location.parentItem, itemConfig, location.index),
                       location.parentItem)
    IN addAt(LayoutManager_findFirstLocation(t, locationSelectors))

\* LayoutManager.addItemAtLocation.  The result is the tree and the location
\* of the item added (NoLocation: no selector matched).
LayoutManager_addItemAtLocation(t, itemConfig, locationSelectors) ==
    LET \* the stack that was inserted around a component, if any
        inserted(u, parentItem, addIdx) ==
            IF /\ itemConfig.type = "component"
               /\ addIdx + 1 <= Len(u.contentItems[parentItem])
               /\ IsStack(u, u.contentItems[parentItem][addIdx + 1])
            THEN Location(u.contentItems[parentItem][addIdx + 1], 0)
            ELSE Location(parentItem, addIdx)
        \* a ground adds below its root item when it has one
        added(r, p) ==
            IF r.t.err THEN [t |-> r.t, location |-> NoLocation]
            ELSE IF IsGround(t, p) /\ r.index >= 0
            THEN [t |-> r.t,
                  location |-> inserted(r.t, r.t.contentItems[MainPanel][1], r.index)]
            ELSE [t |-> r.t,
                  location |-> inserted(r.t, p, IF IsGround(t, p) THEN 0 ELSE r.index)]
        addAt(location) ==
            IF location = NoLocation THEN [t |-> t, location |-> NoLocation]
            ELSE IF IsStack(t, location.parentItem) /\ itemConfig.type # "component"
            THEN [t |-> Throw(t), location |-> NoLocation]   \* ItemConfigIsNotTypeComponent
            ELSE IF IsComponent(t, location.parentItem)
            THEN [t |-> Throw(t), location |-> NoLocation]   \* LMAIALC87444602
            ELSE IF IsGround(t, location.parentItem)
            THEN added(GroundItem_addItem(t, location.parentItem, itemConfig, location.index),
                       location.parentItem)
            ELSE added(ParentAddItem(t, location.parentItem, itemConfig, location.index),
                       location.parentItem)
    IN addAt(LayoutManager_findFirstLocation(t, locationSelectors))


\* -------------------------------------------------------- configurations
\* n component configurations
RECURSIVE Components(_)
Components(n) == IF n = 0 THEN <<>> ELSE <<ComponentConfig>> \o Components(n - 1)

StackConfig(n, activeItemIndex) ==
    Config("stack", Components(n), DefaultSize, DefaultSize, activeItemIndex)

\* a row / column whose children share its axis equally
RowOrColumnConfig(ty, content) ==
    Config(ty,
           [i \in 1..Len(content) |->
               IF ty = "row" THEN Sized(content[i], RDiv(R(100), R(Len(content))), R(100))
               ELSE Sized(content[i], R(100), RDiv(R(100), R(Len(content))))],
           DefaultSize, DefaultSize, 0)

\* the root configurations a layout is loaded from
RootConfigs ==
    {NoConfig, ComponentConfig, StackConfig(0, 0)}
    \cup {StackConfig(MaxTabs, a) : a \in {0, MaxTabs - 1}}
    \cup {RowOrColumnConfig(ty, Components(n)) : ty \in {"row", "column"}, n \in 1..MaxColumns}
    \cup {RowOrColumnConfig("row", <<StackConfig(MaxTabs, 0), ComponentConfig>>)}

\* the item configurations given to addItem
ItemConfigs == {ComponentConfig, StackConfig(1, 0)}

SelectorLists ==
    {DefaultLocationSelectors, AfterFocusedItemIfPossibleLocationSelectors,
     <<Selector("Root", Undef)>>, <<Selector("FirstRowOrColumn", 0)>>}

NodesLeft == Cardinality(FreeNodes(Tree))

\* ------------------------------------------------------------ item areas
\* ContentItem.Area: a rectangle, its surface and the content item it belongs
\* to, of which the hit test needs only how deeply it is nested
Area(xs, ys, depth) ==
    [x1 |-> xs[1], x2 |-> xs[2], y1 |-> ys[1], y2 |-> ys[2],
     surface |-> (xs[2] - xs[1]) * (ys[2] - ys[1]), depth |-> depth]
\* null
NoArea == [x1 |-> 0, x2 |-> 0, y1 |-> 0, y2 |-> 0, surface |-> 0, depth |-> Undef]
NoPointer == [x |-> Undef, y |-> Undef]

Contains(area, x, y) ==
    x > area.x1 /\ x < area.x2 /\ y > area.y1 /\ y < area.y2

\* the loop of getArea; matchingArea = NoArea stands for smallestSurface =
\* Infinity
RECURSIVE GetAreaLoop(_, _, _, _, _)
GetAreaLoop(areas, x, y, i, matching) ==
    IF i > Len(areas) THEN matching
    ELSE GetAreaLoop(areas, x, y, i + 1,
            IF /\ Contains(areas[i], x, y)
               /\ (matching = NoArea \/ matching.surface > areas[i].surface)
            THEN areas[i] ELSE matching)

\* LayoutManager.getArea
LayoutManager_getArea(areas, x, y) == GetAreaLoop(areas, x, y, 1, NoArea)

\* ----------------------------------------------- drag proxy position
Position(x, y) == [x |-> x, y |-> y]
NoMinMax == [minX |-> Undef, maxX |-> Undef, minY |-> Undef, maxY |-> Undef]

\* DragProxy.determineMinMaxXY
DragProxy_determineMinMaxXY(offset, containerWidth, containerHeight) ==
    [minX |-> offset.left, maxX |-> containerWidth + offset.left,
     minY |-> offset.top, maxY |-> containerHeight + offset.top]

\* DragProxy.getXYWithinMinMax (whole pixels: ceil and floor change nothing)
DragProxy_getXYWithinMinMax(mm, x, y) ==
    Position(IF x <= mm.minX THEN mm.minX + 1
             ELSE IF x >= mm.maxX THEN mm.maxX - 1 ELSE x,
             IF y <= mm.minY THEN mm.minY + 1
             ELSE IF y >= mm.maxY THEN mm.maxY - 1 ELSE y)

\* DragProxy constructor: the position it responds to first
DragProxy_constructorPosition(constrain, mm, x, y) ==
    IF constrain THEN DragProxy_getXYWithinMinMax(mm, x, y) ELSE Position(x, y)

\* DragProxy.onDrag: the position responded to after the event at (x, y),
\* which is the one before when the event is not responded to
DragProxy_onDragPosition(constrain, mm, x, y, responded) ==
    IF ~constrain THEN Position(x, y)
    ELSE IF x > mm.minX /\ x < mm.maxX /\ y > mm.minY /\ y < mm.maxY
         THEN Position(x, y)
         ELSE responded

\* ------------------------------------------------- maximise / minimise
\* The operations transform the tree together with the maximise state:
\* m.t, m.maximisedStack, m.maximisedClass, m.stackMaximised, m.events.
LayoutManagerEmitter == Null
\* was: of a call that removes a child, the child, its index, the number of
\* tabs of its stack and whether it was the active and the focused one
NoChild == [child |-> Null, index |-> Undef, tabs |-> 0, active |-> FALSE, focused |-> FALSE]
Call(op, stack, before) == [op |-> op, stack |-> stack, before |-> before, was |-> NoChild]
NoCall == Call("none", Null, Null)

\* EventEmitter.emit: the handlers run at once and see the state as it is
Emit(m, name, emitter) ==
    [m EXCEPT !.events = Append(@, [name |-> name, emitter |-> emitter,
                                    maximisedStack |-> m.maximisedStack,
                                    maximisedClass |-> m.maximisedClass,
                                    stackMaximised |-> m.stackMaximised,
                                    items |-> InTreeOf(m.t)])]

\* Stack.focusActiveContentItem
Stack_focusActiveContentItem(t, s) ==
    IF t.activeComponentItem[s] = Null THEN t
    ELSE ComponentItem_focus(t, t.activeComponentItem[s])

\* LayoutManager.processMaximiseStack
LayoutManager_processMaximiseStack(m, stack) ==
    IF m.t.err THEN m
    ELSE Emit(Emit([m EXCEPT !.maximisedStack = stack,
                             !.maximisedClass = @ \cup {stack},
                             !.maximisePlaceholder = m.t.parent[stack],
                             !.t = Stack_focusActiveContentItem(@, stack)],
                   "maximised", stack),
              "stateChanged", LayoutManagerEmitter)

\* LayoutManager.processMinimiseMaximisedStack
LayoutManager_processMinimiseMaximisedStack(m) ==
    IF m.t.err THEN m
    ELSE IF m.maximisedStack = Null THEN [m EXCEPT !.t = Throw(@)]            \* LMMMS74422
    ELSE IF m.t.parent[m.maximisedStack] = Null THEN [m EXCEPT !.t = Throw(@)] \* LMMI13668
    ELSE Emit(Emit([m EXCEPT !.maximisedClass = @ \ {m.maximisedStack},
                             !.maximisePlaceholder = Null,
                             !.maximisedStack = Null],
                   "minimised", m.maximisedStack),
              "stateChanged", LayoutManagerEmitter)

\* LayoutManager.cleanupBeforeMaximisedStackDestroyed, the listener of the
\* maximised stack's 'beforeItemDestroyed' event
LayoutManager_cleanupBeforeMaximisedStackDestroyed(m) ==
    IF m.maximisedStack # Null /\ m.t.destroyed[m.maximisedStack]
    THEN [m EXCEPT !.maximisedStack = Null]
    ELSE m

\* LayoutManager.setMaximisedStack that maximises without minimising the
\* stack maximised before
LayoutManager_setMaximisedStack_Unminimised(m, stack) ==
    IF stack = Null
    THEN IF m.maximisedStack # Null
         THEN LayoutManager_processMinimiseMaximisedStack(m) ELSE m
    ELSE IF stack # m.maximisedStack
         THEN LayoutManager_processMaximiseStack(m, stack)
         ELSE m

\* LayoutManager.setMaximisedStack
LayoutManager_setMaximisedStack(m, stack) ==
    IF stack = Null
    THEN IF m.maximisedStack # Null
         THEN LayoutManager_processMinimiseMaximisedStack(m) ELSE m
    ELSE IF stack # m.maximisedStack
         THEN LayoutManager_processMaximiseStack(
                  IF m.maximisedStack # Null
                  THEN LayoutManager_processMinimiseMaximisedStack(m) ELSE m,
                  stack)
         ELSE m

\* ComponentItem.enterStackMaximised / exitStackMaximised for every child
EnterStackMaximised(m, s) ==
    IF m.t.err THEN m
    ELSE IF \E c \in Range(m.t.contentItems[s]) : ~IsComponent(m.t, c)
    THEN [m EXCEPT !.t = Throw(@)]                                            \* SMAXI87773
    ELSE [m EXCEPT !.stackMaximised = @ \cup Range(m.t.contentItems[s])]
ExitStackMaximised(m, s) ==
    IF m.t.err THEN m
    ELSE IF \E c \in Range(m.t.contentItems[s]) : ~IsComponent(m.t, c)
    THEN [m EXCEPT !.t = Throw(@)]                                            \* SMINI87773
    ELSE [m EXCEPT !.stackMaximised = @ \ Range(m.t.contentItems[s])]

\* Stack.emitStateChangedEvent
Stack_emitStateChangedEvent(m, s) ==
    IF m.t.err THEN m ELSE Emit(m, "stateChanged", s)

\* Stack.maximise
Stack_maximise(m, s) ==
    IF s = m.maximisedStack THEN m
    ELSE Stack_emitStateChangedEvent(
             EnterStackMaximised(LayoutManager_setMaximisedStack(m, s), s), s)

\* Stack.minimise that minimises whichever stack is maximised
Stack_minimise_Whichever(m, s) ==
    IF m.maximisedStack = Null THEN m
    ELSE Stack_emitStateChangedEvent(
             ExitStackMaximised(LayoutManager_setMaximisedStack(m, Null), m.maximisedStack), s)

\* Stack.minimise
Stack_minimise(m, s) ==
    IF s # m.maximisedStack THEN m
    ELSE Stack_emitStateChangedEvent(
             ExitStackMaximised(LayoutManager_setMaximisedStack(m, Null), s), s)

\* Stack.toggleMaximise
Stack_toggleMaximise(m, s) ==
    IF s = m.maximisedStack THEN Stack_minimise(m, s) ELSE Stack_maximise(m, s)

\* ------------------------------------------------------- history records
\* What is remembered of the drag session under way: how often the zones
\* were retrieved, the position tested last, the zone matched last, the half
\* of a tab the pointer was over when it matched the header of a stack, and
\* the children the original parent had before the detach.
TabHalf(tab, half) == [tab |-> tab, half |-> half]
NoTabHalf == TabHalf(Undef, "none")
Session(retrievals, lastPosition, tabHalf, zones, originalContentItems) ==
    [retrievals |-> retrievals, lastPosition |-> lastPosition,
     lastMatch |-> IF lastPosition \in zones THEN lastPosition ELSE NoZone,
     tabHalf |-> IF lastPosition \in zones THEN tabHalf ELSE NoTabHalf,
     originalContentItems |-> originalContentItems]
NoSession == Session(0, NoZone, NoTabHalf, {}, <<>>)
\* What is remembered of the release that ended the last session: the proxy
\* and the session as they were, and the outcomes taken.
DropRecord(proxy, outcomes, sess) ==
    [proxy |-> proxy, outcomes |-> outcomes, lastMatch |-> sess.lastMatch,
     tabHalf |-> sess.tabHalf,
     originalContentItems |-> sess.originalContentItems]
NoDrop == DropRecord(NoDrag, <<>>, NoSession)

\* ------------------------------------------------------ object identity
\* An object no reference reaches any more cannot be observed again: it is
\* reclaimed.  The identities of the objects alive carry no meaning of their
\* own, so every operation leaves them numbered in the order in which a walk
\* from the layout manager's references meets them.
ReferenceSeq(t, n) == t.contentItems[n] \o <<t.parent[n], t.activeComponentItem[n]>>

\* the objects met by a depth-first walk, in the order of the first visit
RECURSIVE Walk(_, _, _)
Walk(t, todo, seen) ==
    IF todo = <<>> THEN seen
    ELSE IF Head(todo) = Null \/ Includes(seen, Head(todo))
    THEN Walk(t, Tail(todo), seen)
    ELSE Walk(t, ReferenceSeq(t, Head(todo)) \o Tail(todo), Append(seen, Head(todo)))

\* the references held by the layout manager, the drag proxy and the history
Roots(t, proxy, sess, drop) ==
    <<MainPanel, LeftPanel, TopPanel, RightPanel, BottomPanel, DummyGround,
      t.focusedComponentItem,
      proxy.draggedComponent, proxy.originalParent, proxy.selectedDropZone.contentItem,
      drop.proxy.draggedComponent, drop.proxy.originalParent,
      drop.proxy.selectedDropZone.contentItem>>
    \o sess.originalContentItems \o drop.originalContentItems

IsGroundId(n) == n \in GroundPanelItems \cup {DummyGround}

\* the objects alive that are no grounds, in the order of the walk
Alive(t, roots) == SelectSeq(Walk(t, roots, <<>>), LAMBDA n : ~IsGroundId(n))

\* the new identity of every object (Null: not alive)
Renumbering(alive) ==
    [n \in Nodes \cup {Null} |->
        IF n # Null /\ IsGroundId(n) THEN n
        ELSE IF n # Null /\ Includes(alive, n) THEN DummyGround + IndexOf(alive, n) + 1
        ELSE Null]

RenumberZone(pi, z) == [z EXCEPT !.contentItem = pi[@]]
RenumberProxy(pi, proxy) ==
    [proxy EXCEPT !.draggedComponent = pi[@], !.originalParent = pi[@],
                  !.selectedDropZone = RenumberZone(pi, @)]
RenumberSeq(pi, s) == [i \in 1..Len(s) |-> pi[s[i]]]

RenumberTree(t, alive, pi) ==
    LET is(n) == IsGroundId(n) \/ n - DummyGround <= Len(alive)
        old(n) == IF IsGroundId(n) THEN n ELSE alive[n - DummyGround]
        move(f, empty) == [n \in Nodes |-> IF is(n) THEN f[old(n)] ELSE empty]
        moveRef(f) == [n \in Nodes |-> IF is(n) THEN pi[f[old(n)]] ELSE Null]
    IN [t EXCEPT !.type = move(t.type, "free"),
                 !.contentItems = [n \in Nodes |->
                                      IF is(n) THEN RenumberSeq(pi, t.contentItems[old(n)])
                                      ELSE <<>>],
                 !.parent = moveRef(t.parent),
                 !.width = move(t.width, R(0)),
                 !.height = move(t.height, R(0)),
                 !.activeComponentItem = moveRef(t.activeComponentItem),
                 !.destroyed = move(t.destroyed, FALSE),
                 !.focused = move(t.focused, FALSE),
                 !.focusedComponentItem = pi[@]]

\* the state an operation leaves behind
CommitItems(t, proxy, zones, sess, drop) ==
    \E alive \in {Alive(t, Roots(t, proxy, sess, drop))} :
       \E pi \in {Renumbering(alive)} :
          \E u \in {RenumberTree(t, alive, pi)} :
             /\ SetTree(u)
             /\ dragProxy' = RenumberProxy(pi, proxy)
             /\ dropZones' = {RenumberZone(pi, z) : z \in zones}
             /\ session' = [sess EXCEPT !.lastPosition = RenumberZone(pi, @),
                                        !.lastMatch = RenumberZone(pi, @),
                                        !.originalContentItems = RenumberSeq(pi, @)]
             /\ lastDrop' = [drop EXCEPT !.proxy = RenumberProxy(pi, @),
                                         !.lastMatch = RenumberZone(pi, @),
                                         !.originalContentItems = RenumberSeq(pi, @)]
             /\ UNCHANGED <<areaVars, positionVars, maximiseVars>>

Commit(t, proxy, zones, sess, drop) ==
    \E u \in {t} :
       CommitItems(u, proxy, zones, sess, drop) /\ UNCHANGED <<resizeVars, scopeVars>>

\* an operation outside a drag session
CommitTree(t) == \E u \in {t} : Commit(u, NoDrag, {}, NoSession, NoDrop)

\* ------------------------------------------------------------------- Init
\* the layout manager after construction: no ground item yet, no drag
LayoutManager_constructor ==
    /\ type = [n \in Nodes |-> "free"]
    /\ contentItems = [n \in Nodes |-> <<>>]
    /\ parent = [n \in Nodes |-> Null]
    /\ width = [n \in Nodes |-> R(0)]
    /\ height = [n \in Nodes |-> R(0)]
    /\ activeComponentItem = [n \in Nodes |-> Null]
    /\ destroyed = [n \in Nodes |-> FALSE]
    /\ focused = [n \in Nodes |-> FALSE]
    /\ focusedComponentItem = Null
    /\ isInitialised = FALSE
    /\ lmWidth = Null
    /\ responsiveMode = "always"
    /\ firstLoad = TRUE
    /\ updatingColumnsResponsive = FALSE
    /\ err = FALSE
    /\ dragProxy = NoDrag
    /\ dropZones = {}
    /\ session = NoSession
    /\ lastDrop = NoDrop

\* a rectangle on screen (getElementArea), its coordinates exact fractions
Rect(x1, y1, x2, y2) == [x1 |-> x1, y1 |-> y1, x2 |-> x2, y2 |-> y2]
\* the header and the body of an element; an element without header has the
\* body only
ElementArea(header, body) == [header |-> header, body |-> body]
NoElementArea == ElementArea(Rect(R(0), R(0), R(0), R(0)), Rect(R(0), R(0), R(0), R(0)))

\* no area has been calculated and no position tested
NoAreas ==
    /\ itemAreas = <<>>
    /\ pointer = NoPointer
    /\ matchingArea = NoArea
    /\ elementArea = NoElementArea
    /\ dropZoneAreas = <<>>

\* pointer positions are not followed: every position of a drag is taken
\* to be responded to
NoPositions ==
    /\ constrainDragToContainer = FALSE
    /\ minMaxXY = NoMinMax
    /\ pointerEvent = NoPointer
    /\ respondedPosition = NoPointer

\* no stack is maximised
\* a load or resize: whether the columns of the root row did not fit before
\* the responsive collapse, and whether the collapse changed the layout
\* kept: the components below the main ground item are those there would be
\* without the collapse, none of them destroyed
Resize(op, needed, ran) == [op |-> op, needed |-> needed, ran |-> ran, kept |-> TRUE]
NoResizeYet == Resize("none", FALSE, FALSE)
NoResize ==
    /\ resizeTimeoutId = Null
    /\ timers = {}
    /\ containerElementWidth = Null
    /\ burst = 0
    /\ recomputes = 0
    /\ lastResize = NoResizeYet

\* what the location returned by an add designates: the type of
\* location.parentItem.contentItems[location.index], whether that item did not
\* exist before the call, the type of location.parentItem and whether that
\* parent did not exist before; unchanged: nothing was returned and the tree
\* is the one before the call
NoCreated ==
    [type |-> "none", new |-> FALSE, holder |-> "none", wrapped |-> FALSE, unchanged |-> FALSE]

\* location.parentItem.contentItems[location.index]
ItemAt(t, location) ==
    IF location = NoLocation \/ location.index + 1 > Len(t.contentItems[location.parentItem])
    THEN Null
    ELSE t.contentItems[location.parentItem][location.index + 1]

Created(t, r) ==
    IF r.location = NoLocation THEN [NoCreated EXCEPT !.unchanged = (r.t = t)]
    ELSE IF ItemAt(r.t, r.location) = Null
    THEN [NoCreated EXCEPT !.type = "undefined", !.holder = r.t.type[r.location.parentItem]]
    ELSE [type |-> r.t.type[ItemAt(r.t, r.location)],
          new |-> ItemAt(r.t, r.location) \notin InTreeOf(t),
          holder |-> r.t.type[r.location.parentItem],
          wrapped |-> r.location.parentItem \notin InTreeOf(t),
          unchanged |-> FALSE]

\* what addItem was called with and the location it returned
Added(called, itemType, location) ==
    [called |-> called, itemType |-> itemType, location |-> location, created |-> NoCreated]
NoAdd == Added(FALSE, "none", NoLocation)
\* an add called on the tree t, with its result r
AddedAt(t, itemType, r) ==
    [Added(TRUE, itemType, r.location) EXCEPT !.created = Created(t, r)]

\* the configuration saveLayout returned (taken) and whether the layout on
\* display was loaded from it
Snapshot(taken, loaded, root) == [taken |-> taken, loaded |-> loaded, root |-> root]
NoSnapshot == Snapshot(FALSE, FALSE, NoConfig)

NoScopes ==
    /\ sizeInvalidationCount = 0
    /\ virtualSizedContainerAddingCount = 0
    /\ deepestScope = 0
    /\ violation = "none"
    /\ lastAdd = NoAdd
    /\ saved = NoSnapshot

NoneMaximised ==
    /\ maximisedStack = Null
    /\ maximisedClass = {}
    /\ stackMaximised = {}
    /\ maximisePlaceholder = Null
    /\ events = <<>>
    /\ lastCall = NoCall

Init ==
    /\ LayoutManager_constructor
    /\ NoAreas
    /\ NoPositions
    /\ NoneMaximised
    /\ NoResize
    /\ NoScopes

\* ---------------------------------------------------------------- actions
\* LayoutManager.init with an empty root: the grounds are created
LayoutManager_init(t, w) ==
    LayoutManager_adjustColumnsResponsive(
        [t EXCEPT !.type = [n \in Nodes |->
                               IF n \in GroundPanelItems \cup {DummyGround}
                               THEN "ground" ELSE @[n]],
                  !.lmWidth = w,
                  !.isInitialised = TRUE])

InitLayout ==
    /\ ~isInitialised
    /\ \E w \in Widths : CommitTree(LayoutManager_init(Tree, w))

\* LayoutManager.loadLayout
LayoutManager_loadLayout(t, rootConfig) ==
    LayoutManager_adjustColumnsResponsive(GroundItem_loadRoot(t, MainPanel, rootConfig))

LoadLayout ==
    /\ isInitialised /\ dragProxy = NoDrag
    /\ \E cfg \in RootConfigs :
          /\ cfg # NoConfig => ConfigNodes(cfg, FALSE) <= NodesLeft
          /\ CommitTree(LayoutManager_loadLayout(Tree, cfg))

\* LayoutManager.loadComponentAsRoot
LoadComponentAsRoot ==
    /\ isInitialised /\ dragProxy = NoDrag
    /\ NodesLeft >= 1
    /\ CommitTree(GroundItem_loadComponentAsRoot(Tree, MainPanel, ComponentConfig))

\* LayoutManager.addItemAtLocation (addItem, addComponent, newComponent, ...)
AddItemAtLocation ==
    /\ isInitialised /\ dragProxy = NoDrag
    /\ \E cfg \in ItemConfigs, selectors \in SelectorLists :
          /\ ConfigNodes(cfg, FALSE) <= NodesLeft
          /\ CommitTree(LayoutManager_addItemAtLocation(Tree, cfg, selectors).t)

\* LayoutManager.setSize
LayoutManager_setSize(t, w) ==
    IF t.isInitialised
    THEN LayoutManager_adjustColumnsResponsive([t EXCEPT !.lmWidth = w])
    ELSE [t EXCEPT !.lmWidth = w]

SetSize ==
    /\ isInitialised /\ dragProxy = NoDrag
    /\ \E w \in Widths : CommitTree(LayoutManager_setSize(Tree, w))

\* the stacks and tabs the user can reach: those shown in the layout
VisibleStacks == {n \in InTreeOf(Tree) : type[n] = "stack"}

\* Stack.handleHeaderComponentRemoveEvent: a tab is closed
Stack_handleHeaderComponentRemoveEvent(t, s, c) == Stack_removeChild(t, s, c, FALSE)

CloseTab ==
    /\ isInitialised /\ dragProxy = NoDrag
    /\ \E s \in VisibleStacks : \E c \in Range(contentItems[s]) :
          CommitTree(Stack_handleHeaderComponentRemoveEvent(Tree, s, c))

\* Stack.addItem, called by the application on a stack of the layout
Stack_addItem(t, s, itemConfig, index) == ParentAddItem(t, s, itemConfig, index).t

StackAddItem ==
    /\ isInitialised /\ dragProxy = NoDrag
    /\ \E s \in VisibleStacks, cfg \in ItemConfigs, index \in {Undef, 0} :
          /\ ConfigNodes(cfg, TRUE) <= NodesLeft
          /\ CommitTree(Stack_addItem(Tree, s, cfg, index))

\* Stack.handleHeaderComponentFocusEvent: a tab is clicked
Stack_handleHeaderComponentFocusEvent(t, s, c) == Stack_setActiveComponentItem(t, s, c, TRUE)

FocusTab ==
    /\ isInitialised /\ dragProxy = NoDrag
    /\ \E s \in VisibleStacks : \E c \in Range(contentItems[s]) :
          CommitTree(Stack_handleHeaderComponentFocusEvent(Tree, s, c))

\* LayoutManager.clearComponentFocus
ClearComponentFocus ==
    /\ isInitialised /\ dragProxy = NoDrag
    /\ focusedComponentItem # Null
    /\ CommitTree(LayoutManager_setFocusedComponentItem(Tree, Null))

\* The pointer positions tried: one inside no hover rectangle, those over the
\* main panel and those over the area of one of the four side panels, which
\* the code treats alike.
SidePanel == LeftPanel
Positions(t, zones) ==
    {NoZone} \cup {z \in zones :
                      z.contentItem \in Descendants(t, MainPanel) \cup {SidePanel}}
\* Over the header of a stack the pointer is in the left or the right half of
\* one of its tabs.
TabHalves(t, position) ==
    IF position.zone = "stack header" /\ t.contentItems[position.contentItem] # <<>>
    THEN {TabHalf(k, half) : k \in 0..(Len(t.contentItems[position.contentItem]) - 1),
                             half \in {"left", "right"}}
    ELSE {NoTabHalf}

\* Stack.handleHeaderComponentStartDragEvent -> LayoutManager.startComponentDrag
\* -> new DragProxy: a tab is dragged out of its stack; the constructor ends
\* with the test of the initial pointer position
StartDrag ==
    /\ isInitialised /\ dragProxy = NoDrag
    /\ NodesLeft >= 2
    /\ \E s \in VisibleStacks : \E c \in Range(contentItems[s]) :
          \E r \in {DragProxy_constructor(Tree, c, s)} :
             \E position \in Positions(r.t, r.zones) :
                \E tabHalf \in TabHalves(r.t, position) :
                   Commit(r.t,
                          DragProxy_highlightDropZoneForPosition(r.proxy, r.zones, position),
                          r.zones,
                          Session(r.retrievals, position, tabHalf, r.zones, contentItems[s]),
                          NoDrop)

\* DragSource: a new component, held by the dummy ground and never part of
\* the layout, is dragged in; there is no original parent
DragSource_createComponent(t) ==
    LET hold(r) ==
            [t |-> [r.t EXCEPT !.contentItems[DummyGround] = Append(@, r.item)],
             item |-> r.item]
    IN hold(LayoutManager_createContentItemFromConfig(t, ComponentConfig, DummyGround))

StartExternalDrag ==
    /\ isInitialised /\ dragProxy = NoDrag
    /\ NodesLeft >= 3
    /\ \E n \in {DragSource_createComponent(Tree)} :
       \E r \in {DragProxy_constructor(n.t, n.item, Null)} :
          \E position \in Positions(r.t, r.zones) :
             \E tabHalf \in TabHalves(r.t, position) :
                Commit(r.t,
                       DragProxy_highlightDropZoneForPosition(r.proxy, r.zones, position),
                       r.zones,
                       Session(r.retrievals, position, tabHalf, r.zones, <<>>),
                       NoDrop)

\* DragProxy.onDrag that retrieves the zones again
DragProxy_onDrag_Retrieving(proxy, zones, position) ==
    [proxy |-> DragProxy_highlightDropZoneForPosition(proxy, zones, position),
     zones |-> zones, retrievals |-> 1]

\* DragProxy.onDrag: the pointer moved.  The result is the proxy, the zones
\* held by the layout manager and the number of times they were retrieved.
DragProxy_onDrag(proxy, zones, position) ==
    [proxy |-> DragProxy_highlightDropZoneForPosition(proxy, zones, position),
     zones |-> zones, retrievals |-> 0]

Drag ==
    /\ dragProxy # NoDrag
    /\ \E position \in Positions(Tree, dropZones) :
          \E tabHalf \in TabHalves(Tree, position),
             r \in {DragProxy_onDrag(dragProxy, dropZones, position)} :
             /\ dragProxy' = r.proxy
             /\ dropZones' = r.zones
             /\ session' = [session EXCEPT
                               !.retrievals = @ + r.retrievals,
                               !.lastPosition = position,
                               !.lastMatch = IF position \in dropZones THEN position ELSE @,
                               !.tabHalf = IF position \in dropZones THEN tabHalf ELSE @]
             /\ lastDrop' = NoDrop
             /\ err' = FALSE
             /\ UNCHANGED <<itemVars, areaVars, positionVars, maximiseVars, resizeVars, scopeVars>>

\* DragProxy.onDrop: the pointer was released
Drop ==
    /\ dragProxy # NoDrag
    /\ \E r \in {DragProxy_onDrop(Tree, dragProxy)} :
          Commit(r.t, NoDrag, {}, NoSession,
                 DropRecord(dragProxy, r.outcomes, session))

Next ==
    \/ InitLayout
    \/ LoadLayout
    \/ LoadComponentAsRoot
    \/ AddItemAtLocation
    \/ SetSize
    \/ StackAddItem
    \/ CloseTab
    \/ FocusTab
    \/ ClearComponentFocus
    \/ StartDrag
    \/ StartExternalDrag
    \/ Drag
    \/ Drop

Spec == Init /\ [][Next]_vars


\* ------------------------------------------------- the hit test on its own
\* The areas and pointer positions the hit test is tried on.
MaxAreas == 2
MaxCoord == 4
XSpans == {<<0, MaxCoord>>, <<0, 2>>, <<1, 3>>}
YSpans == {<<0, MaxCoord>>, <<1, 3>>}
Depths == 0..2
Areas == {Area(xs, ys, d) : xs \in XSpans, ys \in YSpans, d \in Depths}
AreaLists == UNION {[1..n -> Areas] : n \in 0..MaxAreas}
PointerXs == 0..MaxCoord
PointerYs == {0, 2}

InitArea ==
    /\ LayoutManager_constructor
    /\ itemAreas \in AreaLists
    /\ pointer = NoPointer
    /\ matchingArea = NoArea
    /\ elementArea = NoElementArea
    /\ dropZoneAreas = <<>>
    /\ NoPositions
    /\ NoneMaximised
    /\ NoResize
    /\ NoScopes

\* a pointer position is tested against the item areas
GetArea ==
    /\ \E x \in PointerXs, y \in PointerYs :
          /\ pointer' = [x |-> x, y |-> y]
          /\ matchingArea' = LayoutManager_getArea(itemAreas, x, y)
    /\ UNCHANGED <<treeVars, dragVars, itemAreas, elementArea, dropZoneAreas, positionVars,
                   maximiseVars, resizeVars, scopeVars>>

NextArea == GetArea

SpecArea == InitArea /\ [][NextArea]_vars

\* ------------------------------------------ the rectangles of drop zones
\* The rectangles the drop zones of a stack and of a ground item are given.
RLess(x, y) == x[1] * y[2] < y[1] * x[2]
RLe(x, y) == x[1] * y[2] <= y[1] * x[2]
\* Math.min
RMin(x, y) == IF RLess(x, y) THEN x ELSE y

\* a drop zone with its hover and its highlight rectangle
ZoneArea(zone, hoverArea, highlightArea) ==
    [zone |-> zone, hoverArea |-> hoverArea, highlightArea |-> highlightArea]

\* Stack.getHeaderAndBodyDropZones whose side zones are hovered wherever they
\* are highlighted
Stack_getHeaderAndBodyDropZones_HoverIsHighlight(headerArea, contentArea, empty) ==
    LET contentWidth == RSub(contentArea.x2, contentArea.x1)
        contentHeight == RSub(contentArea.y2, contentArea.y1)
        xHalf == RAdd(contentArea.x1, RDiv(contentWidth, R(2)))
        yHalf == RAdd(contentArea.y1, RDiv(contentHeight, R(2)))
        both(zone, area) == ZoneArea(zone, area, area)
    IN <<both("stack header", headerArea)>> \o
       (IF empty
        THEN <<both("empty stack", contentArea)>>
        ELSE <<both("stack left side", Rect(contentArea.x1, contentArea.y1, xHalf, contentArea.y2)),
               both("stack top side", Rect(contentArea.x1, contentArea.y1, contentArea.x2, yHalf)),
               both("stack right side", Rect(xHalf, contentArea.y1, contentArea.x2, contentArea.y2)),
               both("stack bottom side", Rect(contentArea.x1, yHalf, contentArea.x2, contentArea.y2))>>)

\* Stack.getHeaderAndBodyDropZones
Stack_getHeaderAndBodyDropZones(headerArea, contentArea, empty) ==
    LET contentWidth == RSub(contentArea.x2, contentArea.x1)
        contentHeight == RSub(contentArea.y2, contentArea.y1)
        x(f) == RAdd(contentArea.x1, RMul(contentWidth, f))
        y(f) == RAdd(contentArea.y1, RMul(contentHeight, f))
        quarter == RDiv(R(1), R(4))
        half == RDiv(R(1), R(2))
        threeQuarters == RDiv(R(3), R(4))
    IN <<ZoneArea("stack header", headerArea, headerArea)>> \o
       (IF empty
        THEN <<ZoneArea("empty stack", contentArea, contentArea)>>
        ELSE <<ZoneArea("stack left side",
                        Rect(contentArea.x1, contentArea.y1, x(quarter), contentArea.y2),
                        Rect(contentArea.x1, contentArea.y1, x(half), contentArea.y2)),
               ZoneArea("stack top side",
                        Rect(x(quarter), contentArea.y1, x(threeQuarters), y(half)),
                        Rect(contentArea.x1, contentArea.y1, contentArea.x2, y(half))),
               ZoneArea("stack right side",
                        Rect(x(threeQuarters), contentArea.y1, contentArea.x2, contentArea.y2),
                        Rect(x(half), contentArea.y1, contentArea.x2, contentArea.y2)),
               ZoneArea("stack bottom side",
                        Rect(x(quarter), y(half), x(threeQuarters), contentArea.y2),
                        Rect(contentArea.x1, y(half), contentArea.x2, contentArea.y2))>>)

\* GroundItem.getDropZoneForEntireArea
GroundItem_getDropZoneForEntireArea(area) ==
    <<ZoneArea("whole ground item", area, area)>>

MaxHighlight == 50

\* GroundItem.getLeftRightEdgeDropZones
GroundItem_getLeftRightEdgeDropZones(area) ==
    LET halfWidth == RDiv(RSub(area.x2, area.x1), R(2))
        hoverAreaWidth == halfWidth
        highlightAreaWidth == RMin(halfWidth, R(MaxHighlight))
    IN <<ZoneArea("ground item left edge",
                  Rect(area.x1, area.y1, RAdd(area.x1, hoverAreaWidth), area.y2),
                  Rect(area.x1, area.y1, RAdd(area.x1, highlightAreaWidth), area.y2)),
         ZoneArea("ground item right edge",
                  Rect(RSub(area.x2, hoverAreaWidth), area.y1, area.x2, area.y2),
                  Rect(RSub(area.x2, highlightAreaWidth), area.y1, area.x1, area.y2))>>

\* GroundItem.getTopBottomEdgeDropZones
GroundItem_getTopBottomEdgeDropZones(area) ==
    LET halfHeight == RDiv(RSub(area.y2, area.y1), R(2))
        hoverAreaHeight == halfHeight
        highlightAreaHeight == RMin(halfHeight, R(MaxHighlight))
    IN <<ZoneArea("ground item top edge",
                  Rect(area.x1, area.y1, area.x2, RAdd(area.y1, hoverAreaHeight)),
                  Rect(area.x1, area.y1, area.x2, RAdd(area.y1, highlightAreaHeight))),
         ZoneArea("ground item bottom edge",
                  Rect(area.x1, RSub(area.y2, hoverAreaHeight), area.x2, area.y2),
                  Rect(area.x1, RSub(area.y2, highlightAreaHeight), area.x2, area.y2))>>

\* The elements tried: bodies between these coordinates, with a header of
\* this height above the body.
MaxExtent == 200
Coordinates == {0, 40, 120, MaxExtent}
HeaderHeight == 20
ElementAreas ==
    {ElementArea(Rect(R(x1), R(y1 - HeaderHeight), R(x2), R(y1)), Rect(R(x1), R(y1), R(x2), R(y2))) :
        x1 \in Coordinates, x2 \in Coordinates, y1 \in Coordinates, y2 \in Coordinates}

InitZones ==
    /\ LayoutManager_constructor
    /\ itemAreas = <<>>
    /\ pointer = NoPointer
    /\ matchingArea = NoArea
    /\ elementArea \in {e \in ElementAreas : RLess(e.body.x1, e.body.x2) /\ RLess(e.body.y1, e.body.y2)}
    /\ dropZoneAreas = <<>>
    /\ NoPositions
    /\ NoneMaximised
    /\ NoResize
    /\ NoScopes

SetZones(zones) ==
    /\ dropZoneAreas' = zones
    /\ UNCHANGED <<treeVars, dragVars, itemAreas, pointer, matchingArea, elementArea,
                   positionVars, maximiseVars, resizeVars, scopeVars>>

\* Stack.getDropZones of a stack with or without children
GetStackDropZones ==
    \E empty \in BOOLEAN :
       SetZones(Stack_getHeaderAndBodyDropZones(elementArea.header, elementArea.body, empty))

\* GroundItem.getAllDropZones of a ground item that is empty
GetEntireAreaDropZone == SetZones(GroundItem_getDropZoneForEntireArea(elementArea.body))

\* GroundItem.getEdgeDropZones of a ground item whose child is a row or a column
GetEdgeDropZones ==
    \E child \in {"row", "column"} :
       SetZones(IF child = "row" THEN GroundItem_getTopBottomEdgeDropZones(elementArea.body)
                ELSE GroundItem_getLeftRightEdgeDropZones(elementArea.body))

NextZones == GetStackDropZones \/ GetEntireAreaDropZone \/ GetEdgeDropZones

SpecZones == InitZones /\ [][NextZones]_vars

\* ------------------------------------- the position of the drag proxy
\* The container boxes and pointer positions tried.
Offsets == {[left |-> 0, top |-> 0], [left |-> 1, top |-> 0]}
ContainerWidths == {3}
ContainerHeights == {2, 4}
PagePositions == {Position(x, y) : x \in 0..MaxCoord, y \in {0, 1, MaxCoord}}

InitPosition ==
    /\ LayoutManager_constructor
    /\ NoAreas
    /\ constrainDragToContainer \in BOOLEAN
    /\ minMaxXY = NoMinMax
    /\ pointerEvent = NoPointer
    /\ respondedPosition = NoPointer
    /\ NoneMaximised
    /\ NoResize
    /\ NoScopes

\* new DragProxy(x, y, ...): the bounds are measured and the initial position
\* is responded to
NewDragProxy ==
    /\ \E offset \in Offsets, w \in ContainerWidths, h \in ContainerHeights,
          p \in PagePositions :
          \E mm \in {DragProxy_determineMinMaxXY(offset, w, h)} :
             /\ minMaxXY' = mm
             /\ pointerEvent' = p
             /\ respondedPosition' =
                    DragProxy_constructorPosition(constrainDragToContainer, mm, p.x, p.y)
    /\ UNCHANGED <<treeVars, dragVars, areaVars, constrainDragToContainer, maximiseVars,
                   resizeVars, scopeVars>>

\* DragProxy.onDrag: a pointer move of the drag
PointerMove ==
    /\ minMaxXY # NoMinMax
    /\ \E p \in PagePositions :
          /\ pointerEvent' = p
          /\ respondedPosition' =
                 DragProxy_onDragPosition(constrainDragToContainer, minMaxXY,
                                          p.x, p.y, respondedPosition)
    /\ UNCHANGED <<treeVars, dragVars, areaVars, constrainDragToContainer, minMaxXY,
                   maximiseVars, resizeVars, scopeVars>>

NextPosition ==
    \/ NewDragProxy
    \/ PointerMove

SpecPosition == InitPosition /\ [][NextPosition]_vars

\* --------------------------------------- maximising the stacks of a layout
\* the tree of a layout manager just constructed
NewTree ==
    [type |-> [n \in Nodes |-> "free"], contentItems |-> [n \in Nodes |-> <<>>],
     parent |-> [n \in Nodes |-> Null], width |-> [n \in Nodes |-> R(0)],
     height |-> [n \in Nodes |-> R(0)],
     activeComponentItem |-> [n \in Nodes |-> Null],
     destroyed |-> [n \in Nodes |-> FALSE], focused |-> [n \in Nodes |-> FALSE],
     focusedComponentItem |-> Null, isInitialised |-> FALSE, lmWidth |-> Null,
     responsiveMode |-> "always", firstLoad |-> TRUE,
     updatingColumnsResponsive |-> FALSE, err |-> FALSE]

\* The layouts whose stacks are maximised and minimised: each root
\* configuration loaded at each width.
LoadedLayouts ==
    {t \in {LayoutManager_loadLayout(LayoutManager_init(NewTree, w), cfg) :
                w \in Widths, cfg \in RootConfigs} : ~t.err}

Machine ==
    [t |-> Tree, maximisedStack |-> maximisedStack, maximisedClass |-> maximisedClass,
     stackMaximised |-> stackMaximised, maximisePlaceholder |-> maximisePlaceholder,
     events |-> <<>>]

InitMaximise ==
    /\ \E t \in LoadedLayouts :
          /\ type = t.type
          /\ contentItems = t.contentItems
          /\ parent = t.parent
          /\ width = t.width
          /\ height = t.height
          /\ activeComponentItem = t.activeComponentItem
          /\ destroyed = t.destroyed
          /\ focused = t.focused
          /\ focusedComponentItem = t.focusedComponentItem
          /\ isInitialised = t.isInitialised
          /\ lmWidth = t.lmWidth
          /\ responsiveMode = t.responsiveMode
          /\ firstLoad = t.firstLoad
          /\ updatingColumnsResponsive = t.updatingColumnsResponsive
          /\ err = FALSE
    /\ dragProxy = NoDrag
    /\ dropZones = {}
    /\ session = NoSession
    /\ lastDrop = NoDrop
    /\ NoAreas
    /\ NoPositions
    /\ NoneMaximised
    /\ NoResize
    /\ NoScopes

\* the state a maximise or minimise leaves behind
SetMachine(m, call) ==
    /\ SetTree(m.t)
    /\ maximisedStack' = m.maximisedStack
    /\ maximisedClass' = m.maximisedClass
    /\ stackMaximised' = m.stackMaximised
    /\ maximisePlaceholder' = m.maximisePlaceholder
    /\ events' = m.events
    /\ lastCall' = call
    /\ UNCHANGED <<dragVars, areaVars, positionVars, resizeVars, scopeVars>>

\* Stack.maximise is called on a stack of the layout
Maximise ==
    \E s \in VisibleStacks :
       \E m \in {Stack_maximise(Machine, s)} :
          SetMachine(m, Call("maximise", s, maximisedStack))

\* Stack.minimise is called on a stack of the layout
Minimise ==
    \E s \in VisibleStacks :
       \E m \in {Stack_minimise(Machine, s)} :
          SetMachine(m, Call("minimise", s, maximisedStack))

\* the maximise button in the header of a stack
ToggleMaximise ==
    \E s \in VisibleStacks :
       \E m \in {Stack_toggleMaximise(Machine, s)} :
          SetMachine(m, Call("toggleMaximise", s, maximisedStack))

\* the close button of a tab: Stack.handleHeaderComponentRemoveEvent, during
\* which the destroyed items emit 'beforeItemDestroyed'
CloseTabMaximised ==
    \E s \in VisibleStacks : \E c \in Range(contentItems[s]) :
       \E t \in {Stack_handleHeaderComponentRemoveEvent(Tree, s, c)} :
          \E m \in {LayoutManager_cleanupBeforeMaximisedStackDestroyed(
                        [Machine EXCEPT !.t = t])} :
             SetMachine(m, Call("closeTab", s, maximisedStack))

NextMaximise ==
    \/ Maximise
    \/ Minimise
    \/ ToggleMaximise
    \/ CloseTabMaximised

SpecMaximise == InitMaximise /\ [][NextMaximise]_vars



\* ------------------------------------------------------------ SpecResize
\* Loads and resizes of a layout manager under each responsive mode, the
\* resize signals of the window arriving through the debounce timer.
MaxTimers == 3

\* the root configurations loaded: also a row whose right-most column is a
\* stack of several tabs
ResizeConfigs ==
    RootConfigs \cup {RowOrColumnConfig("row", <<ComponentConfig, StackConfig(MaxTabs, 0)>>)}

\* the columns of the root row do not fit the width
ColumnsDoNotFit(t) ==
    /\ Len(t.contentItems[MainPanel]) > 0
    /\ IsRow(t, t.contentItems[MainPanel][1])
    /\ Len(t.contentItems[t.contentItems[MainPanel][1]]) * MinItemWidth > t.lmWidth

\* the record of a load or resize that led to actual, and that without the
\* responsive collapse would have led to plain
ComponentsBelow(t, g) == {n \in Descendants(t, g) : IsComponent(t, n)}
Resized(op, plain, actual) ==
    [Resize(op, ColumnsDoNotFit(plain), actual.contentItems # plain.contentItems) EXCEPT
        !.kept = /\ ComponentsBelow(actual, MainPanel) = ComponentsBelow(plain, MainPanel)
                 /\ \A c \in ComponentsBelow(plain, MainPanel) : ~actual.destroyed[c]]
Unresponsive(t) == [t EXCEPT !.responsiveMode = "none"]

InitResize ==
    /\ \E mode \in ResponsiveModes :
          /\ type = NewTree.type
          /\ contentItems = NewTree.contentItems
          /\ parent = NewTree.parent
          /\ width = NewTree.width
          /\ height = NewTree.height
          /\ activeComponentItem = NewTree.activeComponentItem
          /\ destroyed = NewTree.destroyed
          /\ focused = NewTree.focused
          /\ focusedComponentItem = NewTree.focusedComponentItem
          /\ isInitialised = NewTree.isInitialised
          /\ lmWidth = NewTree.lmWidth
          /\ responsiveMode = mode
          /\ firstLoad = NewTree.firstLoad
          /\ updatingColumnsResponsive = NewTree.updatingColumnsResponsive
          /\ err = FALSE
    /\ dragProxy = NoDrag
    /\ dropZones = {}
    /\ session = NoSession
    /\ lastDrop = NoDrop
    /\ NoAreas
    /\ NoPositions
    /\ NoneMaximised
    /\ NoResize
    /\ NoScopes

\* LayoutManager.init of a layout manager constructed with a layout
\* configuration: the ground item of the main panel is created with its root
LayoutManager_initRoot(t, w, rootConfig) ==
    LayoutManager_adjustColumnsResponsive(
        GroundItem_loadRoot(
            [t EXCEPT !.type = [n \in Nodes |->
                                   IF n \in GroundPanelItems \cup {DummyGround}
                                   THEN "ground" ELSE @[n]],
                      !.lmWidth = w,
                      !.isInitialised = TRUE],
            MainPanel, rootConfig))

\* LayoutManager.init in a container of some width, the first load
InitialiseWith(configs) ==
    /\ ~isInitialised
    /\ \E w \in Widths, cfg \in configs :
          \E t \in {LayoutManager_initRoot(Tree, w, cfg)},
             plain \in {LayoutManager_initRoot(Unresponsive(Tree), w, cfg)} :
             /\ CommitItems(t, NoDrag, {}, NoSession, NoDrop)
             /\ containerElementWidth' = w
             /\ lastResize' = Resized("init", plain, t)
             /\ UNCHANGED <<resizeTimeoutId, timers, burst, recomputes, scopeVars>>
Initialise == InitialiseWith(ResizeConfigs)

\* LayoutManager.loadLayout
LoadWith(configs) ==
    /\ isInitialised
    /\ \E cfg \in configs :
          /\ cfg # NoConfig => ConfigNodes(cfg, FALSE) <= NodesLeft
          /\ \E t \in {LayoutManager_loadLayout(Tree, cfg)},
                plain \in {LayoutManager_loadLayout(Unresponsive(Tree), cfg)} :
                /\ CommitItems(t, NoDrag, {}, NoSession, NoDrop)
                /\ lastResize' = Resized("load", plain, t)
                /\ UNCHANGED <<resizeTimeoutId, timers, containerElementWidth, burst, recomputes,
                               scopeVars>>
Load == LoadWith(ResizeConfigs)

\* LayoutManager.processResizeWithDebounce that leaves the timeout set before
\* to run
LayoutManager_processResizeWithDebounce_Uncancelled(id, pending) ==
    [resizeTimeoutId |-> IF id = Null THEN 1 ELSE id + 1,
     timers |-> pending \cup {IF id = Null THEN 1 ELSE id + 1}]

\* LayoutManager.processResizeWithDebounce: clearTimeout and setTimeout, the
\* timeouts being numbered in the order they are set
LayoutManager_processResizeWithDebounce(id, pending) ==
    [resizeTimeoutId |-> IF id = Null THEN 1 ELSE id + 1,
     timers |-> (pending \ {id}) \cup {IF id = Null THEN 1 ELSE id + 1}]

\* the window's 'resize' event, the container having taken a new width
ResizeSignal ==
    /\ isInitialised
    /\ resizeTimeoutId = Null \/ resizeTimeoutId < MaxTimers
    /\ \E w \in Widths :
          \E r \in {LayoutManager_processResizeWithDebounce(resizeTimeoutId, timers)} :
             /\ containerElementWidth' = w
             /\ resizeTimeoutId' = r.resizeTimeoutId
             /\ timers' = r.timers
             /\ burst' = IF timers = {} THEN 1 ELSE burst + 1
             /\ recomputes' = 0
             /\ UNCHANGED <<treeVars, dragVars, areaVars, positionVars, maximiseVars, scopeVars,
                            lastResize>>

\* LayoutManager.updateSizeFromContainer
LayoutManager_updateSizeFromContainer(t, w) == LayoutManager_setSize(t, w)

\* a timeout set by processResizeWithDebounce runs
ResizeTimeout ==
    \E id \in timers :
       /\ timers' = timers \ {id}
       /\ recomputes' = recomputes + 1
       /\ \E t \in {LayoutManager_updateSizeFromContainer(Tree, containerElementWidth)},
             plain \in {LayoutManager_updateSizeFromContainer(Unresponsive(Tree),
                                                              containerElementWidth)} :
          /\ SetTree(t)
          /\ lastResize' = Resized("resize", plain, t)
          /\ UNCHANGED <<resizeTimeoutId, containerElementWidth, burst, dragVars, areaVars, positionVars,
                         maximiseVars, scopeVars>>

NextResize ==
    \/ Initialise
    \/ Load
    \/ ResizeSignal
    \/ ResizeTimeout

SpecResize == InitResize /\ [][NextResize]_vars

\* the event loop runs a timeout that stays set: the step of ResizeTimeout,
\* told by what it does to the timeouts
TimeoutRuns == \E id \in timers : timers' = timers \ {id}
SpecResizeLive == SpecResize /\ WF_timers(TimeoutRuns)


\* ---------------------------------------------------------- SpecCollapse
\* Loads and resizes of layouts whose root row may hold a column without
\* children: a row whose first column is empty, so that the first stack of
\* the layout is in the right-most column, and a row of empty columns, a
\* layout without any stack.
CollapseConfigs ==
    ResizeConfigs \cup {RowOrColumnConfig("row", <<DefaultConfig("column"), ComponentConfig>>),
                        RowOrColumnConfig("row", <<DefaultConfig("column"),
                                                   DefaultConfig("column")>>)}

\* LayoutManager.init with a layout configuration of these
InitialiseAny == InitialiseWith(CollapseConfigs)
\* LayoutManager.loadLayout of one of these
LoadAny == LoadWith(CollapseConfigs)

NextCollapse ==
    \/ InitialiseAny
    \/ LoadAny
    \/ ResizeSignal
    \/ ResizeTimeout

SpecCollapse == InitResize /\ [][NextCollapse]_vars


\* ------------------------------------------------------------- SpecScope
\* The size passes over a loaded layout and the two reference-counted scopes
\* of the layout manager they run in.  A pass throws where a handler of the
\* application does: at one item of the layout, or nowhere.
Scopes ==
    [t |-> Tree, sizeInvalidationCount |-> sizeInvalidationCount,
     virtualSizedContainerAddingCount |-> virtualSizedContainerAddingCount,
     deepestScope |-> 0]

Deepest(k) ==
    [k EXCEPT !.deepestScope =
        IF k.sizeInvalidationCount + k.virtualSizedContainerAddingCount > @
        THEN k.sizeInvalidationCount + k.virtualSizedContainerAddingCount ELSE @]

\* LayoutManager.beginSizeInvalidation / endSizeInvalidation
LayoutManager_beginSizeInvalidation(k) == Deepest([k EXCEPT !.sizeInvalidationCount = @ + 1])
LayoutManager_endSizeInvalidation(k) == [k EXCEPT !.sizeInvalidationCount = @ - 1]
\* LayoutManager.beginVirtualSizedContainerAdding / endVirtualSizedContainerAdding
LayoutManager_beginVirtualSizedContainerAdding(k) ==
    Deepest([k EXCEPT !.virtualSizedContainerAddingCount = @ + 1])
LayoutManager_endVirtualSizedContainerAdding(k) ==
    [k EXCEPT !.virtualSizedContainerAddingCount = @ - 1]

RECURSIVE ContentItem_updateSize(_, _, _)
RECURSIVE UpdateContentItemsSizeLoop(_, _, _)

\* updateNodeSize: the 'resize' handler of the item thrower throws
UpdateNodeSize(k, node, thrower) ==
    IF ~k.t.err /\ node = thrower THEN [k EXCEPT !.t = Throw(@)] ELSE k

\* ContentItem.updateContentItemsSize: updateSize of every child in turn
ContentItem_updateContentItemsSize(k, node, thrower) ==
    UpdateContentItemsSizeLoop(k, k.t.contentItems[node], thrower)
UpdateContentItemsSizeLoop(k, items, thrower) ==
    IF items = <<>> \/ k.t.err THEN k
    ELSE UpdateContentItemsSizeLoop(ContentItem_updateSize(k, Head(items), thrower),
                                    Tail(items), thrower)

\* the body of updateSize: updateNodeSize(); updateContentItemsSize(force)
UpdateSizeBody(k, node, thrower) ==
    ContentItem_updateContentItemsSize(UpdateNodeSize(k, node, thrower), node, thrower)

\* Stack.updateSize without the finally: a throw skips the end of the scope
Stack_updateSize_Unguarded(k, s, thrower) ==
    LET end(b) == IF b.t.err THEN b ELSE LayoutManager_endVirtualSizedContainerAdding(b)
    IN end(UpdateSizeBody(LayoutManager_beginVirtualSizedContainerAdding(k), s, thrower))

\* Stack.updateSize: try { ... } finally { end }
Stack_updateSize(k, s, thrower) ==
    LayoutManager_endVirtualSizedContainerAdding(
        UpdateSizeBody(LayoutManager_beginVirtualSizedContainerAdding(k), s, thrower))

\* GroundItem.updateSize: try { ... } finally { end }
GroundItem_updateSize(k, g, thrower) ==
    LayoutManager_endVirtualSizedContainerAdding(
        UpdateSizeBody(LayoutManager_beginVirtualSizedContainerAdding(k), g, thrower))

\* updateSize of any item: rows, columns and components open no scope
ContentItem_updateSize(k, node, thrower) ==
    IF k.t.err THEN k
    ELSE IF IsStack(k.t, node) THEN Stack_updateSize(k, node, thrower)
    ELSE IF k.t.type[node] = "ground" THEN GroundItem_updateSize(k, node, thrower)
    ELSE UpdateSizeBody(k, node, thrower)

MaxIndex == 3

\* Stack.setActiveComponentItem with its size invalidation scope; throws:
\* hide or show of a component throws inside the scope
Stack_setActiveComponentItemInScope(k, s, c, focus, throws) ==
    IF k.t.activeComponentItem[s] = c \/ ~Includes(k.t.contentItems[s], c)
    THEN [k EXCEPT !.t = Stack_setActiveComponentItem(@, s, c, focus)]
    ELSE LayoutManager_endSizeInvalidation(
             [LayoutManager_beginSizeInvalidation(k) EXCEPT
                 !.t = IF throws THEN Throw(@)
                       ELSE Stack_setActiveComponentItem(@, s, c, focus)])

\* a loaded layout, its objects numbered in the order of the walk
Numbered(t) ==
    RenumberTree(t, Alive(t, Roots(t, NoDrag, NoSession, NoDrop)),
                 Renumbering(Alive(t, Roots(t, NoDrag, NoSession, NoDrop))))

InitScope ==
    /\ \E t \in {Numbered(l) : l \in LoadedLayouts} :
          /\ type = t.type
          /\ contentItems = t.contentItems
          /\ parent = t.parent
          /\ width = t.width
          /\ height = t.height
          /\ activeComponentItem = t.activeComponentItem
          /\ destroyed = t.destroyed
          /\ focused = t.focused
          /\ focusedComponentItem = t.focusedComponentItem
          /\ isInitialised = t.isInitialised
          /\ lmWidth = t.lmWidth
          /\ responsiveMode = t.responsiveMode
          /\ firstLoad = t.firstLoad
          /\ updatingColumnsResponsive = t.updatingColumnsResponsive
          /\ err = FALSE
    /\ dragProxy = NoDrag
    /\ dropZones = {}
    /\ session = NoSession
    /\ lastDrop = NoDrop
    /\ NoAreas
    /\ NoPositions
    /\ NoneMaximised
    /\ NoResize
    /\ NoScopes

\* the items whose handler may throw during a size pass
Throwers == {Null} \cup {n \in InTreeOf(Tree) : type[n] \in {"stack", "component"}}

\* the state an operation leaves behind
SetScopes(k, broken) ==
    /\ CommitItems(k.t, NoDrag, {}, NoSession, NoDrop)
    /\ violation' = broken
    /\ sizeInvalidationCount' = k.sizeInvalidationCount
    /\ virtualSizedContainerAddingCount' = k.virtualSizedContainerAddingCount
    /\ deepestScope' = k.deepestScope
    /\ UNCHANGED <<lastAdd, saved, resizeVars>>

\* LayoutManager.updateRootSize
UpdateRootSize ==
    \E thrower \in Throwers :
       \E k \in {GroundItem_updateSize(Scopes, MainPanel, thrower)} : SetScopes(k, "none")

\* updateSize of a stack of the layout
StackUpdateSize ==
    \E s \in VisibleStacks, thrower \in Throwers :
       \E k \in {Stack_updateSize(Scopes, s, thrower)} : SetScopes(k, "none")

\* setActiveComponentItem of a stack of the layout, for any component
SetActiveComponentItem ==
    \E s \in VisibleStacks, throws \in BOOLEAN :
       \E c \in {n \in InTreeOf(Tree) : type[n] = "component"} :
          \E k \in {Stack_setActiveComponentItemInScope(Scopes, s, c, FALSE, throws)} :
             SetScopes(k, IF ~Includes(contentItems[s], c) THEN "not a child" ELSE "none")

\* the size pass that ends addChild, unless addChild threw
AfterAddChild(k, p) ==
    IF k.t.err THEN k ELSE ContentItem_updateSize(k, p, Null)

\* Stack.addChild of a new item of any kind at any index
StackAddChild ==
    \E s \in VisibleStacks, cfg \in ItemConfigs, index \in {Undef, 0, MaxIndex} :
       /\ ConfigNodes(cfg, FALSE) <= NodesLeft
       /\ \E r \in {LayoutManager_createAndInitContentItem(Tree, cfg, s)} :
             \E k \in {AfterAddChild(
                           [Scopes EXCEPT !.t = Stack_addChild(r.t, s, r.item, index, FALSE)],
                           s)} :
                SetScopes(k, IF index # Undef /\ index > Len(contentItems[s])
                             THEN "index beyond the children"
                             ELSE IF cfg.type # "component" THEN "not a component"
                             ELSE "none")

\* GroundItem.addChild of a new item on the ground item of the main panel
GroundAddChild ==
    \E g \in {MainPanel}, cfg \in ItemConfigs :
       /\ ConfigNodes(cfg, FALSE) <= NodesLeft
       /\ \E r \in {LayoutManager_createAndInitContentItem(Tree, cfg, g)} :
             \E k \in {AfterAddChild(
                           [Scopes EXCEPT !.t = GroundItem_addChild(r.t, g, r.item, Undef)],
                           g)} :
                SetScopes(k, IF Len(contentItems[g]) > 0 THEN "ground has a child" ELSE "none")

NextScope ==
    \/ UpdateRootSize
    \/ StackUpdateSize
    \/ SetActiveComponentItem
    \/ StackAddChild
    \/ GroundAddChild

SpecScope == InitScope /\ [][NextScope]_vars


\* --------------------------------------------------------- SpecLifecycle
\* The calls of the application on a layout manager in every stage of its
\* life: constructed, initialised, destroyed.

\* this._groundPanelItems.mainPanel !== undefined
MainPanelDefined(t) == t.type[MainPanel] = "ground"

\* LayoutManager.destroy: every ground item is destroyed
LayoutManager_destroy(t) ==
    IF ~t.isInitialised THEN t
    ELSE [DestroyAll(t, <<MainPanel, LeftPanel, TopPanel, RightPanel, BottomPanel>>)
             EXCEPT !.isInitialised = FALSE]

\* LayoutManager.loadLayout with its test of isInitialised
LayoutManager_loadLayoutCall(t, cfg) ==
    IF ~t.isInitialised THEN Throw(t) ELSE LayoutManager_loadLayout(t, cfg)

\* LayoutManager.saveLayout: reads the layout
LayoutManager_saveLayout(t) == IF ~t.isInitialised THEN Throw(t) ELSE t

\* LayoutManager.addItemAtLocation with its test of the main panel; addItem
\* and addComponent call it with the default selectors
LayoutManager_addItemAtLocationCall(t, cfg, selectors) ==
    IF ~MainPanelDefined(t) THEN Throw(t)           \* 'Cannot add component before init'
    ELSE LayoutManager_addItemAtLocation(t, cfg, selectors).t

\* LayoutManager.newItemAtLocation / newComponentAtLocation
LayoutManager_newItemAtLocation(t, cfg, selectors) ==
    IF ~t.isInitialised THEN Throw(t)               \* 'Cannot add component before init'
    ELSE LayoutManager_addItemAtLocationCall(t, cfg, selectors)

\* LayoutManager.loadComponentAsRoot
LayoutManager_loadComponentAsRoot(t, cfg) ==
    IF ~MainPanelDefined(t) THEN Throw(t)           \* 'Cannot add item before init'
    ELSE GroundItem_loadComponentAsRoot(t, MainPanel, cfg)

\* the state a call leaves behind
SetSaved(t, broken, add, snapshot) ==
    /\ CommitItems(t, NoDrag, {}, NoSession, NoDrop)
    /\ violation' = broken
    /\ lastAdd' = add
    /\ saved' = snapshot
    /\ UNCHANGED <<sizeInvalidationCount, virtualSizedContainerAddingCount, deepestScope,
                   resizeVars>>

\* a call that is no save and no load of the saved layout
SetCalled(t, broken, add) == SetSaved(t, broken, add, [saved EXCEPT !.loaded = FALSE])

SetLifecycle(t, broken) == SetCalled(t, broken, NoAdd)

\* what is wrong with a call that needs an initialised layout manager
Uninitialised == IF isInitialised THEN "none" ELSE "not initialised"

\* init() of the constructed layout manager
CallInit ==
    /\ ~MainPanelDefined(Tree)
    /\ \E w \in Widths : \E t \in {LayoutManager_init(Tree, w)} : SetLifecycle(t, "none")

CallDestroy ==
    \E t \in {LayoutManager_destroy(Tree)} :
       SetLifecycle(t, IF isInitialised THEN "none" ELSE "destroy when not initialised")

CallLoadLayout ==
    \E cfg \in RootConfigs :
       /\ cfg # NoConfig => ConfigNodes(cfg, FALSE) <= NodesLeft
       /\ \E t \in {LayoutManager_loadLayoutCall(Tree, cfg)} : SetLifecycle(t, Uninitialised)

CallSaveLayout ==
    \E t \in {LayoutManager_saveLayout(Tree)} : SetLifecycle(t, Uninitialised)

\* addItemAtLocation; addItem and addComponent with the default selectors
CallAddItemAtLocation ==
    \E cfg \in ItemConfigs, selectors \in SelectorLists :
       /\ ConfigNodes(cfg, FALSE) <= NodesLeft
       /\ \E t \in {LayoutManager_addItemAtLocationCall(Tree, cfg, selectors)} :
             SetLifecycle(t, Uninitialised)

\* newItemAtLocation and newComponentAtLocation
CallNewItemAtLocation ==
    \E cfg \in ItemConfigs, selectors \in SelectorLists :
       /\ ConfigNodes(cfg, FALSE) <= NodesLeft
       /\ \E t \in {LayoutManager_newItemAtLocation(Tree, cfg, selectors)} :
             SetLifecycle(t, Uninitialised)

CallLoadComponentAsRoot ==
    /\ NodesLeft >= 1
    /\ \E t \in {LayoutManager_loadComponentAsRoot(Tree, ComponentConfig)} :
          SetLifecycle(t, Uninitialised)

NextLifecycle ==
    \/ CallInit
    \/ CallDestroy
    \/ CallLoadLayout
    \/ CallSaveLayout
    \/ CallAddItemAtLocation
    \/ CallNewItemAtLocation
    \/ CallLoadComponentAsRoot

SpecLifecycle == Init /\ [][NextLifecycle]_vars


\* ----------------------------------------------------------- SpecAddItem
\* addItem / addComponent on the layouts the application can build.

\* LayoutManager.addItem / addComponent: addItemAtLocation with the default
\* selectors.  The result is the tree and the location returned.
LayoutManager_addItem(t, itemConfig) ==
    LET located(r) ==
            IF ~r.t.err /\ r.location = NoLocation
            THEN [t |-> Throw(r.t), location |-> NoLocation]      \* LMAI99943 / LMAC99943
            ELSE r
    IN IF ~MainPanelDefined(t) THEN [t |-> Throw(t), location |-> NoLocation]
       ELSE located(LayoutManager_addItemAtLocation(t, itemConfig, DefaultLocationSelectors))

CallAddItem ==
    \E cfg \in ItemConfigs :
       /\ ConfigNodes(cfg, FALSE) <= NodesLeft
       /\ \E r \in {LayoutManager_addItem(Tree, cfg)} :
             SetCalled(r.t, Uninitialised, AddedAt(Tree, cfg.type, r))

\* ComponentItem.focus of any component of the layout
CallFocus ==
    \E c \in {n \in InTreeOf(Tree) : IsComponent(Tree, n)} :
       \E t \in {ComponentItem_focus(Tree, c)} : SetLifecycle(t, "none")

\* LayoutManager.clearComponentFocus
CallClearComponentFocus ==
    /\ focusedComponentItem # Null
    /\ \E t \in {LayoutManager_setFocusedComponentItem(Tree, Null)} : SetLifecycle(t, "none")

NextAddItem ==
    \/ CallInit
    \/ CallLoadLayout
    \/ CallLoadComponentAsRoot
    \/ CallFocus
    \/ CallClearComponentFocus
    \/ CallAddItem

SpecAddItem == Init /\ [][NextAddItem]_vars


\* ---------------------------------------------------------- SpecLocation
\* addItemAtLocation / addComponentAtLocation and newItemAtLocation /
\* newComponentAtLocation with the selector lists of the application, on the
\* layouts it can build.

\* LayoutManager.addComponentAtLocation: addItemAtLocation of a component
\* configuration; addItemAtLocation itself takes any item configuration.  The
\* result is the tree and the location returned.
LayoutManager_addComponentAtLocation(t, itemConfig, locationSelectors) ==
    IF ~MainPanelDefined(t)
    THEN [t |-> Throw(t), location |-> NoLocation]  \* 'Cannot add component before init'
    ELSE LayoutManager_addItemAtLocation(t, itemConfig, locationSelectors)

\* the test of newComponentAtLocation on the location r that
\* addComponentAtLocation returned: the created item is no ComponentItem
NotComponentCreated(r, itemConfig) ==
    /\ ~r.t.err /\ r.location # NoLocation
    /\ itemConfig.type = "component"
    /\ \/ ItemAt(r.t, r.location) = Null
       \/ ~IsComponent(r.t, ItemAt(r.t, r.location))

\* LayoutManager.newComponentAtLocation (a component) / newItemAtLocation:
\* the created item is read at the location returned
LayoutManager_newComponentAtLocation(t, itemConfig, locationSelectors) ==
    LET created(r) ==
            IF NotComponentCreated(r, itemConfig)
            THEN [t |-> Throw(r.t), location |-> NoLocation]      \* LMNC992877533
            ELSE r
    IN IF ~t.isInitialised
       THEN [t |-> Throw(t), location |-> NoLocation]  \* 'Cannot add component before init'
       ELSE created(LayoutManager_addComponentAtLocation(t, itemConfig, locationSelectors))

CallAddComponentAtLocation ==
    \E cfg \in ItemConfigs, selectors \in SelectorLists :
       /\ ConfigNodes(cfg, FALSE) <= NodesLeft
       /\ \E r \in {LayoutManager_addComponentAtLocation(Tree, cfg, selectors)} :
             SetCalled(r.t, Uninitialised, AddedAt(Tree, cfg.type, r))

CallNewComponentAtLocation ==
    \E cfg \in ItemConfigs, selectors \in SelectorLists :
       /\ ConfigNodes(cfg, FALSE) <= NodesLeft
       /\ \E r \in {LayoutManager_newComponentAtLocation(Tree, cfg, selectors)} :
             SetCalled(r.t,
                       IF ~isInitialised THEN "not initialised"
                       ELSE IF NotComponentCreated(
                                   LayoutManager_addComponentAtLocation(Tree, cfg, selectors), cfg)
                       THEN "created item is no component"
                       ELSE "none",
                       AddedAt(Tree, cfg.type, r))

NextLocation ==
    \/ CallInit
    \/ CallLoadLayout
    \/ CallLoadComponentAsRoot
    \/ CallFocus
    \/ CallAddComponentAtLocation
    \/ CallNewComponentAtLocation

SpecLocation == Init /\ [][NextLocation]_vars


\* ------------------------------------------------------ SpecAddMaximised
\* Items are added to layouts one of whose stacks may be maximised.

\* LayoutManager.checkMinimiseMaximisedStack
LayoutManager_checkMinimiseMaximisedStack(m) ==
    IF m.maximisedStack # Null THEN Stack_minimise(m, m.maximisedStack) ELSE m

\* Stack.addItem that minimises after it has added the item
Stack_addItemMinimising_AddsFirst(m, s, itemConfig, index) ==
    LayoutManager_checkMinimiseMaximisedStack(
        [m EXCEPT !.t = Stack_addItem(m.t, s, itemConfig, index)])

\* Stack.addItem, with the minimise it starts with
Stack_addItemMinimising(m, s, itemConfig, index) ==
    LET add(k) == [k EXCEPT !.t = Stack_addItem(k.t, s, itemConfig, index)]
    IN add(LayoutManager_checkMinimiseMaximisedStack(m))

\* GroundItem.addItem, with the minimise it starts with
GroundItem_addItemMinimising(m, g, itemConfig, index) ==
    LET add(k) == [k EXCEPT !.t = GroundItem_addItem(k.t, g, itemConfig, index).t]
    IN add(LayoutManager_checkMinimiseMaximisedStack(m))

\* the location LayoutManager.addItem finds is one whose parent it adds to
\* through GroundItem.addItem or Stack.addItem
AddsThroughAddItem(t, itemConfig, location) ==
    /\ location # NoLocation
    /\ \/ IsGround(t, location.parentItem)
       \/ IsStack(t, location.parentItem) /\ itemConfig.type = "component"

\* LayoutManager.addItem, with the minimise GroundItem.addItem and
\* Stack.addItem start with (a minimise leaves the tree as it is)
LayoutManager_addItemMinimising(m, itemConfig) ==
    LET add(k) == [k EXCEPT !.t = LayoutManager_addItem(k.t, itemConfig).t]
    IN add(IF AddsThroughAddItem(m.t, itemConfig,
                                 LayoutManager_findFirstLocation(m.t, DefaultLocationSelectors))
           THEN LayoutManager_checkMinimiseMaximisedStack(m) ELSE m)

\* GroundItem.loadComponentAsRoot of a configuration that may be flagged
\* maximised
GroundItem_loadComponentAsRootFlagged(t, g, itemConfig, maximised) ==
    LET add(r) == GroundItem_addChild(r.t, g, r.item, 0)
        load(u) ==
            IF u.err THEN u
            ELSE IF maximised THEN Throw(u)       \* 'Root Component cannot be maximised'
            ELSE add(LayoutManager_createContentItemFromConfig(u, itemConfig, g))
    IN load(GroundItem_clearRoot(t, g))

\* Stack.addItem is called on a stack of the layout
CallStackAddItem ==
    /\ NodesLeft >= 1
    /\ \E s \in VisibleStacks, index \in {Undef, 0, MaxIndex} :
          \E m \in {Stack_addItemMinimising(Machine, s, ComponentConfig, index)} :
             SetMachine(m, Call("Stack.addItem", s, maximisedStack))

\* GroundItem.addItem is called on the ground item of the main panel
CallGroundAddItem ==
    \E cfg \in ItemConfigs, index \in {Undef, 0} :
       /\ ConfigNodes(cfg, FALSE) <= NodesLeft
       /\ \E m \in {GroundItem_addItemMinimising(Machine, MainPanel, cfg, index)} :
             SetMachine(m, Call("GroundItem.addItem", MainPanel, maximisedStack))

\* LayoutManager.addItem / addComponent
CallAddItemMaximised ==
    \E cfg \in ItemConfigs :
       /\ ConfigNodes(cfg, FALSE) <= NodesLeft
       /\ \E m \in {LayoutManager_addItemMinimising(Machine, cfg)} :
             \E location \in {LayoutManager_findFirstLocation(Tree, DefaultLocationSelectors)} :
                SetMachine(m, Call("addItem",
                                   IF AddsThroughAddItem(Tree, cfg, location)
                                   THEN location.parentItem ELSE Null,
                                   maximisedStack))

\* LayoutManager.loadComponentAsRoot; the root it clears emits
\* 'beforeItemDestroyed'
CallLoadComponentAsRootFlagged ==
    /\ NodesLeft >= 1
    /\ \E maximised \in BOOLEAN :
          \E t \in {GroundItem_loadComponentAsRootFlagged(Tree, MainPanel, ComponentConfig,
                                                          maximised)} :
             \E m \in {LayoutManager_cleanupBeforeMaximisedStackDestroyed(
                           [Machine EXCEPT !.t = t])} :
                SetMachine(m, Call(IF maximised THEN "loadComponentAsRoot maximised"
                                   ELSE "loadComponentAsRoot",
                                   MainPanel, maximisedStack))

NextAddMaximised ==
    \/ Maximise
    \/ CallStackAddItem
    \/ CallGroundAddItem
    \/ CallAddItemMaximised
    \/ CallLoadComponentAsRootFlagged

SpecAddMaximised == InitMaximise /\ [][NextAddMaximised]_vars


\* -------------------------------------------------------------- SpecTabs
\* Tabs are added to, focused in and removed from the stacks of a loaded
\* layout.

\* ComponentItem.focus of a tab
CallComponentFocus ==
    \E s \in VisibleStacks : \E c \in Range(contentItems[s]) :
       \E t \in {ComponentItem_focus(Tree, c)} :
          SetMachine([Machine EXCEPT !.t = t], Call("focus", s, maximisedStack))

\* Stack.removeChild of a tab: the tab is closed (the child is destroyed) or
\* taken out to be put elsewhere (keepChild)
CallStackRemoveChild ==
    \E s \in VisibleStacks : \E c \in Range(contentItems[s]) : \E keepChild \in BOOLEAN :
       \E t \in {Stack_removeChild(Tree, s, c, keepChild)} :
          \E m \in {LayoutManager_cleanupBeforeMaximisedStackDestroyed(
                        [Machine EXCEPT !.t = t])} :
             SetMachine(m, [Call("Stack.removeChild", s, maximisedStack) EXCEPT
                               !.was = [child |-> c,
                                        index |-> IndexOf(contentItems[s], c),
                                        tabs |-> Len(contentItems[s]),
                                        active |-> activeComponentItem[s] = c,
                                        focused |-> focused[c]]])

NextTabs ==
    \/ CallStackAddItem
    \/ CallComponentFocus
    \/ CallStackRemoveChild

SpecTabs == InitMaximise /\ [][NextTabs]_vars


\* ---------------------------------------------------------- SpecSnapshot
\* saveLayout and loadLayout of what it returned.

\* Stack.toConfig throws: the active component is no child, or a stack with
\* children has none
Stack_toConfigThrows(t, s) ==
    \/ /\ t.activeComponentItem[s] # Null
       /\ IndexOf(t.contentItems[s], t.activeComponentItem[s]) < 0
    \/ t.contentItems[s] # <<>> /\ t.activeComponentItem[s] = Null

\* toConfig of an item: kind, children (calculateConfigContent), shares and,
\* of a stack, the index of the active component (Undef: undefined)
RECURSIVE ContentItem_toConfig(_, _)
ContentItem_toConfig(t, n) ==
    Config(t.type[n],
           [i \in 1..Len(t.contentItems[n]) |-> ContentItem_toConfig(t, t.contentItems[n][i])],
           t.width[n], t.height[n],
           IF ~IsStack(t, n) THEN 0
           ELSE IF t.activeComponentItem[n] = Null THEN Undef
           ELSE IndexOf(t.contentItems[n], t.activeComponentItem[n]))

\* LayoutManager.saveLayout throws
LayoutManager_saveLayoutThrows(t) ==
    \/ ~t.isInitialised
    \/ \E s \in Descendants(t, MainPanel) : IsStack(t, s) /\ Stack_toConfigThrows(t, s)

\* LayoutManager.saveLayout: the root of the configuration returned
LayoutManager_saveLayoutRoot(t) ==
    IF Len(t.contentItems[MainPanel]) # 1 THEN NoConfig
    ELSE ContentItem_toConfig(t, t.contentItems[MainPanel][1])

\* Stack constructor: config.activeItemIndex ?? 0
RECURSIVE Resolved(_)
Resolved(cfg) ==
    [cfg EXCEPT !.content = [i \in 1..Len(cfg.content) |-> Resolved(cfg.content[i])],
                !.activeItemIndex = IF @ = Undef THEN 0 ELSE @]

\* saveLayout()
Save ==
    IF LayoutManager_saveLayoutThrows(Tree)
    THEN \E t \in {Throw(Tree)} : SetSaved(t, Uninitialised, NoAdd, [saved EXCEPT !.loaded = FALSE])
    ELSE \E t \in {Tree} :
            SetSaved(t, "none", NoAdd, Snapshot(TRUE, FALSE, LayoutManager_saveLayoutRoot(Tree)))

\* loadLayout() of the configuration saved
LoadSaved ==
    /\ saved.taken
    /\ saved.root # NoConfig => ConfigNodes(saved.root, FALSE) <= NodesLeft
    /\ \E t \in {LayoutManager_loadLayoutCall(Tree, Resolved(saved.root))} :
          SetSaved(t, Uninitialised, NoAdd, [saved EXCEPT !.loaded = ~t.err])

NextSnapshot ==
    \/ CallInit
    \/ CallLoadLayout
    \/ CallLoadComponentAsRoot
    \/ CallAddItemAtLocation
    \/ Save
    \/ LoadSaved

SpecSnapshot == Init /\ [][NextSnapshot]_vars

\* ------------------------------------------------------------ properties
\* the objects that exist, and those shown in the layout
Objects == {n \in Nodes : type[n] # "free"}
InTree == InTreeOf(Tree)
Stacks == {n \in Objects : type[n] = "stack"}
Occurrences(s, x) == Cardinality({i \in 1..Len(s) : s[i] = x})
ParentsOf(c) == {p \in Objects : Includes(contentItems[p], c)}
Dragging == dragProxy # NoDrag
Released == lastDrop # NoDrop

\* C1: parent pointers and child lists agree after every step: for every
\* pair of nodes, child.parent = p if and only if child is in p's child list,
\* and no node appears in two child lists or twice in one.
C1_ParentsAndChildListsAgree ==
    /\ \A p \in Objects, c \in Objects : parent[c] = p <=> Includes(contentItems[p], c)
    /\ \A c \in Objects :
          /\ Cardinality(ParentsOf(c)) <= 1
          /\ \A p \in Objects : Occurrences(contentItems[p], c) <= 1

\* reached: a drop on the side of a stack was committed by a split
C1_Witness ==
    /\ lastDrop.outcomes = <<"committed">>
    /\ lastDrop.proxy.selectedDropZone.zone = "stack left side"
    /\ ~err
    /\ \E rc \in InTree : type[rc] = "row" /\ Len(contentItems[rc]) = 2

\* C2: each of the five grounds has at most one child and every child of
\* every stack is a component.
C2_GroundAndStackChildren ==
    /\ \A g \in GroundPanelItems : type[g] = "ground" => Len(contentItems[g]) <= 1
    /\ \A s \in Stacks : \A i \in 1..Len(contentItems[s]) :
          type[contentItems[s][i]] = "component"

\* reached: a side panel received its single child by a drop on its area,
\* and the application was refused a second root
C2_Witness ==
    /\ Len(contentItems[SidePanel]) = 1
    /\ Len(contentItems[MainPanel]) = 1
    /\ \E s \in Stacks : s \in InTree /\ Len(contentItems[s]) = MaxTabs

\* C3: every non-empty stack has exactly one active component, one of its
\* children; an empty stack has none, also after its last child was removed.
C3_ActiveComponentOfStack ==
    \A s \in Stacks :
        IF contentItems[s] = <<>> THEN activeComponentItem[s] = Null
        ELSE Includes(contentItems[s], activeComponentItem[s])

\* C4: every component in the tree of a main window is a child of exactly
\* one stack, or the only child of a ground (loadComponentAsRoot); it is
\* never a direct child of a row or column.
C4_ComponentsLiveInStacks ==
    \A c \in InTree : type[c] = "component" =>
        /\ parent[c] # Null
        /\ type[parent[c]] \notin {"row", "column"}
        /\ \/ /\ type[parent[c]] = "stack"
              /\ {p \in Stacks : Includes(contentItems[p], c)} = {parent[c]}
           \/ /\ type[parent[c]] = "ground"
              /\ contentItems[parent[c]] = <<c>>

\* reached: components created under a ground, under a row and by a drop on
\* the edge of a ground all sit in stacks of their own
C4_Witness ==
    /\ lastDrop.outcomes = <<"committed">>
    /\ lastDrop.proxy.selectedDropZone.zone = "ground item top edge"
    /\ ~err
    /\ type[parent[lastDrop.proxy.draggedComponent]] = "stack"
    /\ type[parent[parent[lastDrop.proxy.draggedComponent]]] = "column"

C6_ExactlyOneOutcome ==
    Released =>
        /\ Len(lastDrop.outcomes) = 1
        /\ lastDrop.outcomes[1] =
              IF lastDrop.proxy.selectedDropZone # NoZone THEN "committed"
              ELSE IF lastDrop.proxy.originalParent # Null THEN "reverted"
              ELSE "discarded"
        /\ lastDrop.outcomes[1] = "reverted" =>
              Includes(contentItems[lastDrop.proxy.originalParent],
                       lastDrop.proxy.draggedComponent)
        /\ lastDrop.outcomes[1] = "discarded" <=> destroyed[lastDrop.proxy.draggedComponent]

\* reached: a component dragged in from outside was released over no zone
C6_Witness ==
    /\ lastDrop.outcomes = <<"discarded">>
    /\ lastDrop.proxy.originalParent = Null
    /\ destroyed[lastDrop.proxy.draggedComponent]

\* C7: a drag that ends with no selected zone puts the component back into
\* its stack at the index it had: the children are those before the detach.
C7_RevertRestoresIndex ==
    lastDrop.outcomes = <<"reverted">> =>
        contentItems[lastDrop.proxy.originalParent] = lastDrop.originalContentItems

\* C8: after a release the dragged component is destroyed or the child of
\* exactly one parent, once, and that parent is in the tree of a ground.
C8_DroppedComponentIsInTheTree ==
    Released =>
        \/ destroyed[lastDrop.proxy.draggedComponent]
        \/ \E p \in InTree :
              /\ ParentsOf(lastDrop.proxy.draggedComponent) = {p}
              /\ parent[lastDrop.proxy.draggedComponent] = p
              /\ Occurrences(contentItems[p], lastDrop.proxy.draggedComponent) = 1

\* C9: the selected zone is the zone matched by the most recent position
\* that matched any zone (a position matching none keeps it); it is the
\* zone committed, and a release reverts or discards only if no position
\* of the session matched.
C9_SelectionIsSticky ==
    /\ Dragging => dragProxy.selectedDropZone = session.lastMatch
    /\ Released =>
          /\ lastDrop.proxy.selectedDropZone = lastDrop.lastMatch
          /\ lastDrop.outcomes[1] \in {"reverted", "discarded"} <=> lastDrop.lastMatch = NoZone

\* reached: the position tested last matched no zone and a zone is selected
C9_Witness ==
    /\ Dragging
    /\ session.lastPosition = NoZone
    /\ dragProxy.selectedDropZone # NoZone

\* C10: the zones of a session are retrieved once, after the detach, and
\* not on pointer moves: they are the zones of the tree without the dragged
\* component, and none is owned by it or by a stack the detach removed.
C10_ZonesRetrievedOnceAfterDetach ==
    Dragging =>
        /\ session.retrievals = 1
        /\ dropZones = LayoutManager_retrieveDropZones(Tree)
        /\ \A z \in dropZones :
              /\ z.contentItem \in InTree
              /\ z.contentItem # dragProxy.draggedComponent
              /\ ~destroyed[z.contentItem]

\* reached: the detach emptied and removed the original stack, and the
\* pointer has moved since
C10_Witness ==
    /\ Dragging
    /\ dragProxy.originalParent # Null
    /\ destroyed[dragProxy.originalParent]
    /\ session.lastPosition = NoZone
    /\ dragProxy.selectedDropZone # NoZone
    /\ session.retrievals = 1

\* C11: when several hover rectangles contain the pointer, the area of the
\* most deeply nested node is returned, the smallest surface deciding only
\* among areas of that depth; when no rectangle contains the pointer the
\* result is the absent value.
Hit == {i \in 1..Len(itemAreas) : Contains(itemAreas[i], pointer.x, pointer.y)}
Tested == pointer # NoPointer
C11_DeepestAreaWins ==
    Tested =>
        IF Hit = {} THEN matchingArea = NoArea
        ELSE /\ \E i \in Hit : matchingArea = itemAreas[i]
             /\ \A i \in Hit : itemAreas[i].depth <= matchingArea.depth
             /\ \A i \in Hit : itemAreas[i].depth = matchingArea.depth
                                  => matchingArea.surface <= itemAreas[i].surface

\* C11, the part the hit test keeps: nothing under the pointer gives the
\* absent value, something under it gives an area that contains it.
C11_AbsentWhenNothingHit ==
    Tested => ((Hit = {}) <=> (matchingArea = NoArea))

\* C12: with constrain-to-container, the position responded to after every
\* pointer event of a drag, the initial one and each move, is the event's
\* position clamped to the bounds measured at drag start; a move outside the
\* bounds is answered at the nearest position inside, not ignored.
InBounds(p) ==
    /\ p.x > minMaxXY.minX /\ p.x < minMaxXY.maxX
    /\ p.y > minMaxXY.minY /\ p.y < minMaxXY.maxY
C12_EveryPositionClamped ==
    (constrainDragToContainer /\ pointerEvent # NoPointer) =>
        respondedPosition = DragProxy_getXYWithinMinMax(minMaxXY, pointerEvent.x, pointerEvent.y)

\* C12, the part that holds: a constrained drag never responds to a position
\* outside the bounds.
C12_RespondedInBounds ==
    (constrainDragToContainer /\ pointerEvent # NoPointer) => InBounds(respondedPosition)

\* C13: a dragged component that was focused when the drag started is blurred
\* before it is detached, so that no component is focused while it is
\* detached; after a release that committed or reverted without failing it is
\* the focused component again; after a discarded release the destroyed
\* component is not focused.
C13_FocusFollowsTheDrag ==
    /\ (Dragging /\ dragProxy.componentItemFocused) =>
           /\ focusedComponentItem = Null
           /\ \A n \in Objects : ~focused[n]
    /\ (Released /\ ~err /\ lastDrop.proxy.componentItemFocused
           /\ lastDrop.outcomes \in {<<"committed">>, <<"reverted">>}) =>
           /\ focusedComponentItem = lastDrop.proxy.draggedComponent
           /\ focused[lastDrop.proxy.draggedComponent]
    /\ (Released /\ lastDrop.outcomes = <<"discarded">>) =>
           /\ focusedComponentItem # lastDrop.proxy.draggedComponent
           /\ ~focused[lastDrop.proxy.draggedComponent]
C13_Witness ==
    /\ Released /\ ~err /\ lastDrop.proxy.componentItemFocused
    /\ lastDrop.outcomes = <<"committed">>
    /\ focusedComponentItem = lastDrop.proxy.draggedComponent
    /\ lastDrop.proxy.draggedComponent \in InTree

\* the release that just ended committed the drop on a zone of this kind
Committed(zoneKinds) ==
    /\ Released
    /\ lastDrop.outcomes = <<"committed">>
    /\ lastDrop.proxy.selectedDropZone.zone \in zoneKinds
DropTarget == lastDrop.proxy.selectedDropZone.contentItem
Dropped == lastDrop.proxy.draggedComponent
\* s is a stack whose only child, and active component, is the dropped one
IsStackOfDropped(s) ==
    /\ type[s] = "stack"
    /\ contentItems[s] = <<Dropped>>
    /\ parent[Dropped] = s
    /\ activeComponentItem[s] = Dropped

\* C14: committing a drop of component C on the "whole ground item" zone of
\* an empty ground leaves the ground with exactly one child, a stack whose
\* only child is C and whose active component is C.
C14_DropOnEmptyGround ==
    Committed({"whole ground item"}) =>
        /\ ~err
        /\ Len(contentItems[DropTarget]) = 1
        /\ parent[contentItems[DropTarget][1]] = DropTarget
        /\ IsStackOfDropped(contentItems[DropTarget][1])
C14_Witness ==
    /\ Committed({"whole ground item"})
    /\ DropTarget = MainPanel
    /\ IsStackOfDropped(contentItems[MainPanel][1])

\* C15: committing a drop on the header of a stack inserts the dropped
\* component at the index given by the pointer and the tab midpoints: over
\* the left half of tab k at index k, over the right half at index k + 1; a
\* drop over the left half of the only tab of a one-tab stack gives a two-tab
\* stack with the new component at index 0.
C15_HeaderDropIndexFollowsPointer ==
    (Committed({"stack header"}) /\ ~err /\ lastDrop.tabHalf # NoTabHalf) =>
        IndexOf(contentItems[DropTarget], Dropped) =
            IF lastDrop.tabHalf.half = "left" THEN lastDrop.tabHalf.tab
            ELSE lastDrop.tabHalf.tab + 1

\* C15, what the header zone does: the dropped component becomes the last
\* tab wherever the pointer was.
C15_HeaderDropAppends ==
    (Committed({"stack header"}) /\ ~err) =>
        IndexOf(contentItems[DropTarget], Dropped) = Len(contentItems[DropTarget]) - 1

StackSideZones == {"stack left side", "stack top side",
                   "stack right side", "stack bottom side"}
\* the two children of container rc are the old item and a new stack holding
\* only the dropped component, the new stack first when the zone is at the
\* left or the top, each with a share of 50 along the container
IsSplit(rc, old, zone, containerType) ==
    /\ rc # Null
    /\ type[rc] = containerType
    /\ Len(contentItems[rc]) = 2
    /\ \E new \in Range(contentItems[rc]) :
          /\ contentItems[rc] = IF zone \in {"left", "top"} THEN <<new, old>> ELSE <<old, new>>
          /\ new # old
          /\ parent[new] = rc /\ parent[old] = rc
          /\ IsStackOfDropped(new)
          /\ Share(Tree, rc, new) = R(50)
          /\ Share(Tree, rc, old) = R(50)
\* where item n sits: the kind of its parent, how many children the parent
\* has and the index of n among them
Place(n) ==
    IF parent[n] = Null THEN <<"none", 0, -1>>
    ELSE <<type[parent[n]], Len(contentItems[parent[n]]), IndexOf(contentItems[parent[n]], n)>>
StackSplit ==
    IsSplit(parent[DropTarget], DropTarget,
            CASE lastDrop.proxy.selectedDropZone.zone = "stack left side" -> "left"
              [] lastDrop.proxy.selectedDropZone.zone = "stack top side" -> "top"
              [] lastDrop.proxy.selectedDropZone.zone = "stack right side" -> "right"
              [] OTHER -> "bottom",
            IF lastDrop.proxy.selectedDropZone.zone \in {"stack left side", "stack right side"}
            THEN "row" ELSE "column")

\* C16: committing a drop of component C on a side zone of a non-empty stack
\* S puts, in the place S had in its parent, a new row (left, right) or
\* column (top, bottom) with exactly two children, S and a new stack holding
\* only C, the new stack first for left and top and last for right and
\* bottom, each of the two with a share of 50.
C16_StackSideDropSplits ==
    [][Committed(StackSideZones)' =>
          /\ ~err'
          /\ StackSplit'
          /\ Place(parent[DropTarget])' = Place(dragProxy.selectedDropZone.contentItem)]_vars
C16_Witness ==
    /\ Committed({"stack right side"})
    /\ StackSplit
    /\ type[parent[parent[DropTarget]]] = "row"

GroundEdgeZones == {"ground item left edge", "ground item top edge",
                    "ground item right edge", "ground item bottom edge"}
\* the subtree below n without the identities of its nodes
RECURSIVE ShapeOf(_, _)
ShapeOf(t, n) ==
    <<t.type[n], [i \in 1..Len(t.contentItems[n]) |-> ShapeOf(t, t.contentItems[n][i])]>>
\* the child of the wrapper that is not the new stack
WrappedChild ==
    CHOOSE n \in Range(contentItems[contentItems[DropTarget][1]]) : ~IsStackOfDropped(n)
GroundWrapped ==
    /\ Len(contentItems[DropTarget]) = 1
    /\ parent[contentItems[DropTarget][1]] = DropTarget
    /\ \E old \in Range(contentItems[contentItems[DropTarget][1]]) :
          /\ type[old] \in {"row", "column"}
          /\ IsSplit(contentItems[DropTarget][1], old,
                     CASE lastDrop.proxy.selectedDropZone.zone = "ground item left edge" -> "left"
                       [] lastDrop.proxy.selectedDropZone.zone = "ground item top edge" -> "top"
                       [] lastDrop.proxy.selectedDropZone.zone = "ground item right edge" -> "right"
                       [] OTHER -> "bottom",
                     IF lastDrop.proxy.selectedDropZone.zone
                            \in {"ground item left edge", "ground item right edge"}
                     THEN "row" ELSE "column")

\* C17: committing a drop of component C on an edge zone of a ground whose
\* sole child R is a row or column leaves the ground with exactly one child,
\* a new row (left, right) or column (top, bottom) whose two children are R,
\* unchanged, and a new stack holding only C, the new stack first for left
\* and top and last for right and bottom, each of the two with a share of 50.
C17_GroundEdgeDropWraps ==
    [][Committed(GroundEdgeZones)' =>
          /\ ~err'
          /\ GroundWrapped'
          /\ ShapeOf(Tree, WrappedChild)' =
                 ShapeOf(Tree, contentItems[dragProxy.selectedDropZone.contentItem][1])]_vars
C17_Witness ==
    /\ Committed({"ground item top edge"})
    /\ DropTarget = MainPanel
    /\ GroundWrapped
    /\ contentItems[contentItems[MainPanel][1]][2] = WrappedChild

\* a row directly inside a row, or a column directly inside a column
SameOrientationNested ==
    \E n \in InTree :
       /\ type[n] \in {"row", "column"}
       /\ parent[n] # Null
       /\ type[parent[n]] = type[n]

\* C18: a drop at an edge where the surrounding row or column already has
\* the needed orientation adds a sibling stack to it and creates no new
\* level: a committed drop on a layout with no row directly inside a row and
\* no column directly inside a column leaves none.
C18_NoNeedlessNesting ==
    [][(Committed(StackSideZones \cup GroundEdgeZones)' /\ ~SameOrientationNested)
          => ~SameOrientationNested']_vars

\* the stacks of the layout whose element carries the maximised class
MaximisedStacks == maximisedClass \cap InTree

\* the last call maximised a stack while a different one was maximised
Switched ==
    /\ lastCall.op \in {"maximise", "toggleMaximise"}
    /\ lastCall.before # Null
    /\ lastCall.before # lastCall.stack

\* C19: at most one stack is maximised in every reachable state; maximise on
\* stack B while a different stack A is maximised first minimises A, the
\* 'minimised' event of A being emitted before the 'maximised' event of B,
\* and ends with B the only maximised stack.
C19_OneMaximisedStack ==
    /\ Cardinality(MaximisedStacks) <= 1
    /\ MaximisedStacks = IF maximisedStack = Null THEN {} ELSE {maximisedStack}
    /\ Switched =>
          /\ ~err
          /\ maximisedStack = lastCall.stack
          /\ \E i, j \in 1..Len(events) :
                /\ i < j
                /\ events[i].name = "minimised" /\ events[i].emitter = lastCall.before
                /\ events[j].name = "maximised" /\ events[j].emitter = lastCall.stack
C19_Witness ==
    /\ Switched
    /\ lastCall.op = "maximise"
    /\ maximisedClass = {lastCall.stack}
    /\ Len(events) = 5

\* C20: switching the maximised stack from A to B is atomic for observers:
\* no handler of 'minimised', 'maximised' or 'stateChanged' run during
\* maximise(B) sees the layout manager's maximised stack being neither A nor
\* B, nor A only partly minimised (no longer the maximised stack while its
\* element or its components are still marked maximised).
C20_SwitchIsAtomic ==
    Switched =>
        \A i \in 1..Len(events) :
           /\ events[i].maximisedStack \in {lastCall.before, lastCall.stack}
           /\ events[i].maximisedStack # lastCall.before =>
                 /\ lastCall.before \notin events[i].maximisedClass
                 /\ Range(contentItems[lastCall.before]) \cap events[i].stackMaximised = {}

\* C21: minimise on a stack that is not maximised, and maximise on a stack
\* that is already maximised, change nothing: the layout manager's maximised
\* stack, the stack-maximised mark of every component and the tree stay as
\* they were and no event is emitted; minimise on a stack that is not
\* maximised leaves a different, maximised stack maximised.
C21_MaximiseMinimiseIdempotent ==
    [][((lastCall'.op = "minimise" /\ lastCall'.stack # maximisedStack)
        \/ (lastCall'.op = "maximise" /\ lastCall'.stack = maximisedStack))
          => /\ UNCHANGED <<itemVars, maximisedStack, maximisedClass, stackMaximised>>
             /\ ~err'
             /\ events' = <<>>]_vars
C21_Witness ==
    /\ lastCall.op = "minimise"
    /\ lastCall.before # Null
    /\ lastCall.stack # lastCall.before
    /\ maximisedStack = lastCall.before
    /\ events = <<>>

\* C22: in every reachable state a component is marked stack-maximised if
\* and only if its parent stack is the maximised stack, after maximise,
\* after minimise and after maximise of a different stack while one is
\* maximised.
C22_MarkedIffInMaximisedStack ==
    \A c \in InTree :
       type[c] = "component" =>
          (c \in stackMaximised <=> (maximisedStack # Null /\ parent[c] = maximisedStack))

\* C22, what holds: the components of the maximised stack are marked.
C22_MaximisedStackIsMarked ==
    maximisedStack # Null => Range(contentItems[maximisedStack]) \subseteq stackMaximised

\* the maximise placeholder is in the layout: it sits in the element of an
\* item that is part of the layout
PlaceholderPresent ==
    /\ maximisePlaceholder # Null
    /\ maximisePlaceholder \in InTree
    /\ ~destroyed[maximisePlaceholder]

\* C23: the maximise placeholder is in the layout exactly when some stack is
\* maximised: the change from normal to maximised inserts it, the change from
\* maximised to normal removes it, and it is absent whenever the maximised
\* stack was cleared because it was destroyed (its last tab closed).
C23_PlaceholderIffMaximised == PlaceholderPresent <=> maximisedStack # Null

\* the components anywhere under a node of the layout
ComponentsUnder(node) == {c \in Descendants(Tree, node) : type[c] = "component"}

\* a resize on which the responsive collapse triggers
CollapseTriggers ==
    /\ recomputes' = recomputes + 1
    /\ lastResize'.op = "resize"
    /\ lastResize'.needed
    /\ responsiveMode = "always"
    /\ ~updatingColumnsResponsive

\* C24: when the responsive collapse triggers on a root row whose columns do
\* not fit the width, then on completion exactly the excess = columnCount -
\* max(floor(width / minItemWidth), 1) right-most columns have been removed
\* and every component that was anywhere under them is a tab of the first
\* stack in pre-order, also for columns whose stack holds more than one tab.
C24_CollapseMovesExcessColumns ==
    [][CollapseTriggers =>
          LET columns == contentItems[contentItems[MainPanel][1]]
              finalColumnCount ==
                  IF containerElementWidth \div MinItemWidth > 1
                  THEN containerElementWidth \div MinItemWidth ELSE 1
              firstStack == FindAllStacks(Tree, MainPanel)[1]
          IN /\ ~err'
             /\ \A i \in 1..Len(columns) :
                   IF i <= finalColumnCount
                   THEN columns[i] \in InTree'
                   ELSE /\ columns[i] \notin InTree'
                        /\ ComponentsUnder(columns[i]) \subseteq Range(contentItems'[firstStack])
      ]_vars

\* C25: the responsive collapse honours its policy: under 'always' it runs at
\* every load and every resize at which the columns of the root row do not
\* fit; under 'onload' it runs at the first load, which is init, when the
\* columns do not fit and at no later load or resize; under any other policy
\* it never runs.
C25_PolicyHonoured ==
    lastResize.op # "none" =>
        IF responsiveMode = "always" THEN lastResize.needed => lastResize.ran
        ELSE IF responsiveMode = "onload"
        THEN lastResize.ran <=> (lastResize.needed /\ lastResize.op = "init")
        ELSE ~lastResize.ran

\* at most one size recompute is pending, the one the last signal scheduled,
\* and once none is pending exactly one has happened since the last signal
Debounced ==
    /\ Cardinality(timers) <= 1
    /\ timers \subseteq {resizeTimeoutId}
    /\ recomputes <= 1
    /\ (resizeTimeoutId # Null /\ timers = {}) => recomputes = 1
    /\ timers # {} => recomputes = 0

\* C26: resize signals are debounced: at any time at most one size recompute
\* is pending; each new resize signal cancels the pending one and schedules a
\* new one; a burst of signals leads to exactly one size recompute, which
\* happens after the last signal.
C26_ResizeDebounced ==
    /\ []Debounced
    /\ (timers # {}) ~> (timers = {} /\ recomputes = 1)
C26_Witness == burst > 1 /\ timers = {} /\ recomputes = 1

\* C27: the size invalidation scope and the virtual sized-container scope
\* are balanced: every begin by Stack.updateSize, GroundItem.updateSize and
\* Stack.setActiveComponentItem is matched by one end whether the work
\* completes or throws, so that after each operation the depth of each scope
\* is what it was before, also when the scopes nest.
C27_ScopesBalanced ==
    /\ sizeInvalidationCount = 0
    /\ virtualSizedContainerAddingCount = 0
C27_Witness == err /\ deepestScope > 1 /\ C27_ScopesBalanced

\* the layout is as it was: the same items with the same children, parents,
\* active components and focus
TreeUnchanged ==
    /\ InTree' = InTree
    /\ \A n \in InTree :
          /\ contentItems'[n] = contentItems[n]
          /\ parent'[n] = parent[n]
          /\ activeComponentItem'[n] = activeComponentItem[n]
          /\ focused'[n] = focused[n]
          /\ destroyed'[n] = destroyed[n]
    /\ focusedComponentItem' = focusedComponentItem

C29_UninitialisedCallsRejected ==
    [][/\ violation' = "not initialised" => (err' /\ TreeUnchanged /\ ~isInitialised')
       /\ violation' = "destroy when not initialised" =>
             (~err' /\ TreeUnchanged /\ ~isInitialised')]_vars
\* what holds: the calls on a layout manager that was never initialised
C29_BeforeInit ==
    [][(violation' # "none" /\ ~MainPanelDefined(Tree))
          => (TreeUnchanged /\ ~isInitialised')]_vars

\* C30: on every initialised layout (empty, a root stack, a root row or
\* column, a component loaded as root; a component focused or none) addItem /
\* addComponent with the default location selectors raise no error, return
\* a location and add the item.  Stated for a component, the item all three
\* calls take.
C30_DefaultSelectorsAdd ==
    [][(lastAdd'.called /\ isInitialised /\ lastAdd'.itemType = "component")
          => /\ ~err'
             /\ lastAdd'.location # NoLocation
             /\ Cardinality(InTree') > Cardinality(InTree)]_vars
\* what holds: a component is added to every initialised layout but the one
\* whose root is a component
C30_ComponentAddedUnlessRootComponent ==
    [][(/\ lastAdd'.called /\ isInitialised
        /\ lastAdd'.itemType = "component"
        /\ ~(contentItems[MainPanel] # <<>> /\ IsComponent(Tree, contentItems[MainPanel][1])))
          => /\ ~err'
             /\ lastAdd'.location # NoLocation
             /\ Cardinality(InTree') > Cardinality(InTree)]_vars

\* C31: the layout loaded from a saved configuration has the node kinds, the
\* child order, the size shares and the active tab of every stack of the
\* layout that was saved, whatever layout that was (a component loaded as
\* root included).
C31_SnapshotRoundTrip ==
    saved.loaded => LayoutManager_saveLayoutRoot(Tree) = saved.root
\* what holds: the round trip of a layout whose root is no component and
\* which the load does not collapse
C31_RoundTripOfFittingStacks ==
    (/\ saved.loaded
     /\ saved.root.type # "component"
     /\ (saved.root.type = "row" => Len(saved.root.content) * MinItemWidth <= lmWidth))
       => LayoutManager_saveLayoutRoot(Tree) = saved.root

\* C32: a call that fails has modified nothing: loadComponentAsRoot of a
\* configuration flagged maximised leaves the root of the ground item in
\* place, and a Stack.addItem or GroundItem.addItem that fails (index out of
\* range, the root is a component) leaves the tree and the maximised stack as
\* they were.
C32_FailureModifiesNothing ==
    [][(/\ lastCall'.op \in {"Stack.addItem", "GroundItem.addItem",
                             "loadComponentAsRoot maximised"}
        /\ err')
          => (TreeUnchanged /\ maximisedStack' = maximisedStack)]_vars
\* what holds: a Stack.addItem or GroundItem.addItem that fails while no
\* stack is maximised leaves the tree as it was
C32_FailedAddKeepsTree ==
    [][(/\ lastCall'.op \in {"Stack.addItem", "GroundItem.addItem"}
        /\ maximisedStack = Null
        /\ err')
          => TreeUnchanged]_vars

\* the zone of that name among those computed (Null: none)
ZoneNamed(name) ==
    IF \E i \in 1..Len(dropZoneAreas) : dropZoneAreas[i].zone = name
    THEN dropZoneAreas[CHOOSE i \in 1..Len(dropZoneAreas) : dropZoneAreas[i].zone = name]
    ELSE ZoneArea("none", NoElementArea.body, NoElementArea.body)
Hover(name) == ZoneNamed(name).hoverArea
SideZones == {"stack left side", "stack top side", "stack right side", "stack bottom side"}
BodyWidth == RSub(elementArea.body.x2, elementArea.body.x1)
BodyHeight == RSub(elementArea.body.y2, elementArea.body.y1)
\* the point of the body at fractions fx and fy of its width and height
AtX(fx) == RAdd(elementArea.body.x1, RMul(BodyWidth, fx))
AtY(fy) == RAdd(elementArea.body.y1, RMul(BodyHeight, fy))
InRect(r, x, y) == RLe(r.x1, x) /\ RLe(x, r.x2) /\ RLe(r.y1, y) /\ RLe(y, r.y2)
\* the interiors of two rectangles meet
Overlap(a, b) ==
    /\ RLess(a.x1, b.x2) /\ RLess(b.x1, a.x2)
    /\ RLess(a.y1, b.y2) /\ RLess(b.y1, a.y2)
\* the fractions of the points tested: the eighths strictly inside
Eighths == {RDiv(R(k), R(8)) : k \in 1..7}
\* the side zones of a stack with children have been computed
SidesComputed == ZoneNamed("stack left side").zone # "none"
\* the left and the right zone are the outer quarters of the width
LeftRightQuarters ==
    /\ Hover("stack left side") =
          Rect(elementArea.body.x1, elementArea.body.y1, AtX(RDiv(R(1), R(4))), elementArea.body.y2)
    /\ Hover("stack right side") =
          Rect(AtX(RDiv(R(3), R(4))), elementArea.body.y1, elementArea.body.x2, elementArea.body.y2)
SidesDisjoint ==
    \A a \in SideZones, b \in SideZones : a # b => ~Overlap(Hover(a), Hover(b))
\* a point inside the body that is on none of the lines at these fractions is
\* in at most one hover rectangle
AtMostOneZone(xLines, yLines) ==
    \A fx \in Eighths \ xLines, fy \in Eighths \ yLines :
       Cardinality({z \in SideZones : InRect(Hover(z), AtX(fx), AtY(fy))}) <= 1

\* C33: the hover zones of the four sides of a stack with children are bands
\* of its body: the left one its left-most quarter and the right one its
\* right-most quarter of the width, the top one and the bottom one the
\* top-most and bottom-most quarter of the height; no two of the four
\* overlap, and a point inside the body that is on no boundary of a band is in
\* at most one of them.
C33_SideZonesAreQuarterBands ==
    SidesComputed =>
       /\ LeftRightQuarters
       /\ Hover("stack top side").y1 = elementArea.body.y1
       /\ Hover("stack top side").y2 = AtY(RDiv(R(1), R(4)))
       /\ Hover("stack bottom side").y1 = AtY(RDiv(R(3), R(4)))
       /\ Hover("stack bottom side").y2 = elementArea.body.y2
       /\ SidesDisjoint
       /\ AtMostOneZone({RDiv(R(1), R(4)), RDiv(R(3), R(4))}, {RDiv(R(1), R(4)), RDiv(R(3), R(4))})
\* C33 as the code has it: the top zone and the bottom zone are the upper and
\* the lower half of the middle half of the width; the rest as stated.
C33_SideZonesPartitionBody ==
    SidesComputed =>
       /\ LeftRightQuarters
       /\ Hover("stack top side") =
             Rect(AtX(RDiv(R(1), R(4))), elementArea.body.y1,
                  AtX(RDiv(R(3), R(4))), AtY(RDiv(R(1), R(2))))
       /\ Hover("stack bottom side") =
             Rect(AtX(RDiv(R(1), R(4))), AtY(RDiv(R(1), R(2))),
                  AtX(RDiv(R(3), R(4))), elementArea.body.y2)
       /\ SidesDisjoint
       /\ AtMostOneZone({RDiv(R(1), R(4)), RDiv(R(3), R(4))}, {RDiv(R(1), R(2))})
C33_Witness ==
    /\ SidesComputed
    /\ BodyWidth = R(MaxExtent)
    /\ Hover("stack top side").y2 = AtY(RDiv(R(1), R(2)))

\* C34: a location returned by addItemAtLocation / addComponentAtLocation
\* designates the item just created: location.parentItem.contentItems[
\* location.index] did not exist before the call and has the type of the
\* configuration; for a component it is the new component and the parent is
\* the stack holding it, so newComponentAtLocation never finds another item
\* there; when no selector is valid nothing is returned, nothing is raised
\* and the tree is the one before the call.
C34_LocationDesignatesCreatedItem ==
    /\ (lastAdd.called /\ lastAdd.location # NoLocation)
          => /\ lastAdd.created.new
             /\ lastAdd.created.type = lastAdd.itemType
             /\ lastAdd.itemType = "component" => lastAdd.created.holder = "stack"
    /\ violation # "created item is no component"
    /\ (lastAdd.called /\ ~err /\ lastAdd.location = NoLocation)
          => lastAdd.created.unchanged
\* a component was added where a stack had to be created around it
C34_Witness ==
    /\ lastAdd.called /\ lastAdd.itemType = "component"
    /\ lastAdd.created.type = "component"
    /\ lastAdd.created.wrapped
\* no selector of the list was valid
C34_NoLocationReached ==
    lastAdd.called /\ ~err /\ isInitialised /\ lastAdd.location = NoLocation

\* C35: when Stack.removeChild removes the active component of a stack with at
\* least two children, the neighbour becomes the active one: the child at
\* index 1 if the removed one was at index 0, otherwise the child at the
\* preceding index; removing another child leaves the active component as it
\* was; a removed active component that was focused is blurred and nothing
\* else receives the focus.
C35_NeighbourBecomesActive ==
    [][(lastCall'.op = "Stack.removeChild" /\ ~err' /\ lastCall'.was.tabs >= 2)
          => /\ lastCall'.was.active
                  => activeComponentItem'[lastCall'.stack]
                        = contentItems[lastCall'.stack][IF lastCall'.was.index = 0 THEN 2
                                                        ELSE lastCall'.was.index]
             /\ ~lastCall'.was.active
                  => activeComponentItem'[lastCall'.stack]
                        = activeComponentItem[lastCall'.stack]
             /\ (lastCall'.was.active /\ lastCall'.was.focused)
                  => /\ focusedComponentItem' = Null
                     /\ ~focused'[lastCall'.was.child]
                     /\ ~focused'[lastCall'.stack]
                     /\ ~focused'[activeComponentItem'[lastCall'.stack]]]_vars
\* the last of three tabs, active and focused, was removed
C35_Witness ==
    /\ lastCall.op = "Stack.removeChild" /\ ~err
    /\ lastCall.was.tabs = 3 /\ lastCall.was.index = 2
    /\ lastCall.was.active /\ lastCall.was.focused

\* C36: GroundItem.addItem and Stack.addItem called while a stack is maximised
\* first minimise that stack: its 'minimised' event is emitted while the tree
\* is still the one before the call, and after the call no stack is
\* maximised; the same holds of LayoutManager.addItem / addComponent whenever
\* they return, and the item is then in the tree.
C36_AddMinimisesFirst ==
    [][(/\ lastCall'.before # Null
        /\ \/ lastCall'.op \in {"Stack.addItem", "GroundItem.addItem"}
           \/ lastCall'.op = "addItem" /\ ~err')
          => /\ maximisedStack' = Null
             /\ \E i \in 1..Len(events') :
                   /\ events'[i].name = "minimised"
                   /\ events'[i].emitter = lastCall'.before
                   /\ events'[i].items = InTree
             /\ ~err' => Cardinality(InTree') > Cardinality(InTree)]_vars
\* Stack.addItem returned after it had minimised the maximised stack
C36_Witness ==
    /\ lastCall.op = "Stack.addItem" /\ lastCall.before # Null /\ ~err
    /\ maximisedStack = Null
    /\ \E i \in 1..Len(events) : events[i].name = "minimised"

\* the zones the ground g has among those held for the drag under way
ZonesOfGround(g) == {z.zone : z \in {y \in dropZones : y.contentItem = g}}
\* the zones a ground with this child is to offer
ZonesForChild(g) ==
    IF contentItems[g] = <<>> THEN {"whole ground item"}
    ELSE CASE type[contentItems[g][1]] = "row" ->
                  {"ground item top edge", "ground item bottom edge"}
           [] type[contentItems[g][1]] = "column" ->
                  {"ground item left edge", "ground item right edge"}
           [] OTHER -> {}

\* C37: the drop zones a ground offers to a drag depend only on its child: the
\* whole area when it has none, nothing when the child is a stack or a
\* component, the top and bottom edges when it is a row and the left and
\* right edges when it is a column; a drop committed on an edge puts the
\* root into a new row or column of the other orientation.
C37_GroundZonesFollowChild ==
    [][/\ dragProxy' # NoDrag
            => \A g \in GroundPanelItems : ZonesOfGround(g)' = ZonesForChild(g)'
       /\ Committed(GroundEdgeZones)'
            => /\ type'[contentItems'[DropTarget'][1]] \in {"row", "column"}
               /\ type'[contentItems'[DropTarget'][1]]
                     # type[contentItems[dragProxy.selectedDropZone.contentItem][1]]]_vars
\* a drag over a layout whose root is a column
C37_Witness ==
    /\ dragProxy # NoDrag
    /\ contentItems[MainPanel] # <<>>
    /\ type[contentItems[MainPanel][1]] = "column"
    /\ ZonesOfGround(MainPanel) = {"ground item left edge", "ground item right edge"}
    /\ ZonesOfGround(LeftPanel) = {"whole ground item"}

\* x1 < x2 and y1 < y2
WellFormed(r) == RLess(r.x1, r.x2) /\ RLess(r.y1, r.y2)
\* the rectangle r lies within the rectangle a
Within(r, a) ==
    /\ RLe(a.x1, r.x1) /\ RLe(r.x2, a.x2)
    /\ RLe(a.y1, r.y1) /\ RLe(r.y2, a.y2)
\* the area of the node that owns the zone: header and body of a stack, the
\* element of a ground item
OwnerArea(zone) ==
    IF zone \in {"stack header", "empty stack", "stack left side", "stack top side",
                 "stack right side", "stack bottom side"}
    THEN Rect(elementArea.body.x1, elementArea.header.y1,
              elementArea.body.x2, elementArea.body.y2)
    ELSE elementArea.body
ZoneWellFormed(z) ==
    /\ WellFormed(z.hoverArea)
    /\ WellFormed(z.highlightArea)
    /\ Within(z.highlightArea, OwnerArea(z.zone))

\* C38: every drop zone a ground item or a stack with a non-degenerate area
\* produces has a hover and a highlight rectangle with x1 < x2 and y1 < y2,
\* and its highlight rectangle lies within the area of the owning node.
C38_ZonesWellFormed ==
    \A i \in 1..Len(dropZoneAreas) : ZoneWellFormed(dropZoneAreas[i])
\* what holds: every zone but the right edge of a ground item is well formed,
\* and so is the hover rectangle of that one
C38_WellFormedButRightEdge ==
    \A i \in 1..Len(dropZoneAreas) :
       IF dropZoneAreas[i].zone = "ground item right edge"
       THEN WellFormed(dropZoneAreas[i].hoverArea)
       ELSE ZoneWellFormed(dropZoneAreas[i])
\* the highlight rectangle of the right edge of a ground item ends at the
\* left edge of the area
C38_RightEdgeInverted ==
    \A i \in 1..Len(dropZoneAreas) :
       dropZoneAreas[i].zone = "ground item right edge"
          => /\ dropZoneAreas[i].highlightArea.x2 = elementArea.body.x1
             /\ RLe(dropZoneAreas[i].highlightArea.x2, dropZoneAreas[i].highlightArea.x1)

\* the components whose focused flag is set
FocusedComponents == {n \in Nodes : type[n] = "component" /\ focused[n]}
\* the focused component is the one the layout manager holds
OneFocusedComponent ==
    FocusedComponents = IF focusedComponentItem = Null THEN {} ELSE {focusedComponentItem}
\* the focused component is in the tree and is the active one of its stack
FocusedIsActiveInTree ==
    focusedComponentItem # Null
       => /\ focusedComponentItem \in InTree
          /\ ~destroyed[focusedComponentItem]
          /\ parent[focusedComponentItem] # Null
          /\ type[parent[focusedComponentItem]] = "stack"
                => activeComponentItem[parent[focusedComponentItem]] = focusedComponentItem
\* a stack is flagged focused exactly when the focused component is its child
StackFocusedFlags ==
    \A s \in {n \in Nodes : type[n] = "stack"} :
       focused[s] <=> /\ focusedComponentItem # Null
                      /\ Includes(contentItems[s], focusedComponentItem)

\* C39: in every reachable state at most one component is focused, it is the
\* focusedComponentItem of the layout manager, it is in the tree (neither
\* detached by a drag nor destroyed), it is the active component of its
\* parent stack, and a stack is flagged focused exactly when the focused
\* component is one of its children.
C39_FocusInvariant ==
    /\ OneFocusedComponent
    /\ FocusedIsActiveInTree
    /\ StackFocusedFlags
\* what holds: the focus is consistent, and the focused component is in the
\* tree unless a drag was reverted into its removed, destroyed stack
C39_FocusConsistentButReverted ==
    /\ OneFocusedComponent
    /\ StackFocusedFlags
    /\ focusedComponentItem # Null
          => /\ ~destroyed[focusedComponentItem]
             /\ parent[focusedComponentItem] # Null
             /\ type[parent[focusedComponentItem]] = "stack"
                   => activeComponentItem[parent[focusedComponentItem]] = focusedComponentItem
             /\ \/ focusedComponentItem \in InTree
                \/ destroyed[parent[focusedComponentItem]]

\* C40: the responsive collapse neither loses nor duplicates components and
\* ends with its guard released: after every load and resize the components
\* below the main ground item are those there would be without the collapse,
\* none of them destroyed, and updatingColumnsResponsive is false whenever
\* adjustColumnsResponsive is not running.
C40_CollapseKeepsComponents ==
    /\ lastResize.op # "none" => lastResize.kept
    /\ ~updatingColumnsResponsive
\* the two parts of it
C40_ComponentsKept == lastResize.op # "none" => lastResize.kept
C40_GuardReleased == ~updatingColumnsResponsive
\* what holds: the guard stays set only by a collapse that threw
C40_GuardSetOnlyByThrow ==
    [][(updatingColumnsResponsive' /\ ~updatingColumnsResponsive) => err']_vars
\* a later load does not collapse columns that do not fit: the guard is still
\* set
C40_NoLaterCollapse ==
    ~(/\ updatingColumnsResponsive /\ ~err /\ responsiveMode = "always"
      /\ lastResize.op = "load" /\ lastResize.needed /\ ~lastResize.ran)
====
